---------------------------- MODULE Spec2Model ----------------------------
(***************************************************************************)
(* Sync coordination of YABOOK photos with a per-school PhotoPrism         *)
(* deployment.                                                             *)
(*                                                                         *)
(* Two pieces of the repository write a photo's sync state:                *)
(*   - SyncCoordinator.sync_photo_to_photoprism                            *)
(*       (backend/services/sync_coordinator.py), which writes the photo    *)
(*       field "status" and the collection photoprism_sync_events;         *)
(*   - the background task sync_photo_to_photoprism (backend/server.py),   *)
(*       which writes the photo fields "sync_status", "sync_version",      *)
(*       "sync_errors" and the collection sync_events.                     *)
(* Both are modelled, each as a set of coroutines whose steps are the      *)
(* stretches of code between two awaits (asyncio runs such a stretch       *)
(* without interruption).                                                  *)
(*                                                                         *)
(* The coordinator's batch_sync_photos, retry_failed_syncs and             *)
(* reconcile_school_photos and the adapter's _ensure_session and           *)
(* _authenticate (backend/services/photoprism_adapter.py) follow, each     *)
(* with a specification of its own.                                        *)
(***************************************************************************)
EXTENDS Integers, Sequences, FiniteSets, TLC

(* ------------------------------ bounds -------------------------------- *)

NumPhotos == 2
NumSchools == 2
NumCalls == 2
NumTasks == 3
MaxStoreFaults == 1
NumClients == 2
MaxIssue == 1
MaxRegistryCalls == 4
NumStatusPhotos == 3
MaxEventWrites == 3

(* ------------------------- program constants -------------------------- *)

max_retry_attempts == 3

retry_delays == <<5, 15, 60>>

\* None in a string field, in an identifier field and in a document field
Null == "null"

NoId == << >>

NoDoc == [none |-> TRUE]

PhotoIds == 1..NumPhotos

\* an id no photo document carries
UnknownId == 0

Schools == 1..NumSchools

Calls == 1..NumCalls

Tasks == 1..NumTasks

\* the coroutines that use one adapter
Clients == 1..NumClients

\* None in a datetime field
NoTime == 0 - 1

\* a search that returned None
NoRemote == [none |-> TRUE, items |-> << >>]

\* the school a stored photo belongs to (its school_id field, never rewritten)
SchoolOf(p) == ((p - 1) % NumSchools) + 1

\* the file name stored with photo p
FilenameOf(p) == <<"file", p>>

\* a photo document as created by the upload endpoint
NewPhoto(p) ==
    [ school_id           |-> SchoolOf(p),
      status              |-> "pending",
      sync_status         |-> "pending",
      sync_version        |-> 1,
      photoprism_uuid     |-> NoId,
      photoprism_filename |-> NoId,
      photoprism_instance_id |-> NoId,
      last_sync_attempt   |-> Null,
      sync_errors         |-> << >> ]

\* a sync event as PhotoPrismSyncEvent(...) builds it
NewSyncEvent(p, inst) ==
    [ photo_id           |-> p,
      instance_id        |-> inst,
      event_type         |-> "upload",
      event_status       |-> "pending",
      processing_time_ms |-> Null,
      error_details      |-> Null ]

\* a PhotoPrismInstance document: one per school
NewInstance(s, st) ==
    [ id |-> <<"instance", s>>, school_id |-> s, status |-> st,
      base_url |-> <<"url", s>> ]

\* the deployments the store starts with: every other school has an ACTIVE
\* instance; the others have an INACTIVE one and stand for every school
\* without an ACTIVE instance
SeededStatus(s) == IF s % 2 = 1 THEN "active" ELSE "inactive"

Min(a, b) == IF a < b THEN a ELSE b

VARIABLES
    photos,                  \* db.photos: id -> document
    instances,               \* db.photoprism_instances: school -> document
    photoprism_sync_events,  \* db.photoprism_sync_events, in insertion order
    registry,                \* PhotoPrismInstanceManager._instances
    calls,                   \* the coordinator's sync_photo_to_photoprism calls
    obs,                     \* what an instrumented client and store observe per call
    lastWriter,              \* the call or task that last wrote each photo
    storeBudget,             \* store operations that may still raise
    sync_events,             \* db.sync_events (server.py)
    instances_cache,         \* PhotoPrismAdapter.instances_cache (server.py)
    tasks,                   \* the background tasks of server.py
    batch,                   \* the batch_sync_photos call
    retry,                   \* the retry_failed_syncs call
    recon,                   \* the reconcile_school_photos call
    adapter,                 \* a PhotoPrismAdapter: session_token, session_expires
    now,                     \* datetime.utcnow(), in minutes since the adapter was built
    ens,                     \* the _ensure_session calls on that adapter
    ops,                     \* the operations called on that adapter
    mgr,                     \* the instance manager's dict order and its health_check_all call
    stat,                    \* the get_sync_status calls
    scenario                 \* the component a run exercises

vars == << photos, instances, photoprism_sync_events, registry, calls, obs,
           lastWriter, storeBudget, sync_events, instances_cache, tasks,
           batch, retry, recon, adapter, now, ens, ops, mgr, stat, scenario >>

serverVars == << sync_events, instances_cache, tasks >>

batchVars == << batch, retry >>

sessionVars == << adapter, now, ens >>

moreVars == << ops, mgr, stat, scenario >>

\* the state of the operations other than a single sync
extVars == << batchVars, recon, sessionVars, moreVars >>

\* the locals of a sync_photo_to_photoprism call: config is the configuration
\* read from the instance document, adapter the base_url of the adapter the
\* instance manager returned
IdleCall ==
    [ pc |-> "idle", photo_id |-> UnknownId, photo |-> NoDoc, instance |-> NoId,
      config |-> NoDoc, adapter |-> NoId,
      event_id |-> 0, attempt |-> 0, result |-> NoDoc, error_msg |-> Null,
      ret |-> FALSE ]

NoObs ==
    [ attempts |-> 0, started |-> 0, returned |-> 0, accepted |-> 0,
      acceptedAt |-> 0, writes |-> 0, delays |-> << >>, sleptAfter |-> << >> ]

IdleTask ==
    [ pc |-> "idle", photo_id |-> UnknownId, photo |-> NoDoc, instance |-> NoId ]

\* batch_sync_photos before it is called; ret is the map it returns
IdleBatch ==
    [ pc |-> "idle", photo_ids |-> << >>, max_concurrent |-> 0, acquired |-> {},
      ret |-> << >>, caller |-> "none" ]

\* retry_failed_syncs before it is called; before is the photo collection as
\* the call found it
IdleRetry ==
    [ pc |-> "idle", school_id |-> 0, limit |-> 0, photo_ids |-> << >>,
      ret |-> << >>, before |-> << >> ]

\* reconcile_school_photos before it is called: its locals, the report it
\* builds, the requests it has sent and the store as the call found it
IdleRecon ==
    [ pc |-> "idle", school_id |-> 0, dry_run |-> TRUE, yabook_photos |-> << >>,
      photoprism_photos |-> NoRemote, orphaned_yabook |-> << >>,
      orphaned_photoprism |-> << >>, actions_taken |-> << >>, error |-> Null,
      requests |-> << >>, before |-> << >> ]

\* PhotoPrismAdapter.__init__: no token, no expiry; issued_at is the time of
\* the authentication that set the token
NewAdapter ==
    [ session_token |-> NoId, session_expires |-> NoTime, issued_at |-> NoTime ]

\* an _ensure_session call before it is made, with what an instrumented
\* transport and clock see of it: the requests it sent, the age of the token
\* it found (NoTime without a token) and what its _authenticate returned
IdleEns ==
    [ pc |-> "idle", ret |-> FALSE, requests |-> 0, age |-> NoTime,
      auth_ok |-> FALSE ]

\* an operation of the adapter before it is called: the value _ensure_session
\* returned to it, the logins it sent, the X-Session-ID headers of its own
\* requests, and the value it returned
IdleOp ==
    [ pc |-> "idle", kind |-> Null, ensured |-> Null, logins |-> 0,
      requests |-> << >>, ret |-> Null ]

\* health_check_all before it is called: the schools cached at the call, the
\* state of the iterator of self._instances.items() (the size it was created
\* with, its position, the items it still expects), the school being probed,
\* and the results dict
IdleHealth ==
    [ pc |-> "idle", snapshot |-> {}, used |-> 0, pos |-> 0, left |-> 0,
      school |-> 0, results |-> [s \in Schools |-> Null] ]

\* no call of the instance manager made yet
NoManagerCall ==
    [ op |-> Null, school |-> 0, config |-> NoDoc, before |-> NoDoc,
      client |-> NoDoc, constructed |-> FALSE, evicted |-> FALSE ]

\* the instance manager: the entries of the _instances dict in insertion
\* order (0 where a key was deleted), the adapters constructed so far, the
\* schools evicted and not asked for since, the calls made, the last call,
\* and the health_check_all call
IdleManager ==
    [ entries |-> << >>, built |-> 0, evicted |-> {}, done |-> 0,
      last |-> NoManagerCall, hc |-> IdleHealth ]

\* the endpoint GET /sync/status/{school_id} of server.py before it is called
IdleEndpoint ==
    [ pc |-> "idle", school_id |-> 0, total_photos |-> 0, synced_photos |-> 0,
      failed_photos |-> 0, pending_photos |-> 0,
      sync_percentage |-> [times |-> 0, over |-> 1] ]

\* no get_sync_status call made yet: the call in progress, its result, the
\* result of the call before it, the schools whose events were written since
\* the first call began, and the call of the endpoint of server.py
IdleStatus ==
    [ pc |-> "idle", school |-> 0, counts |-> NoDoc, last_sync |-> NoTime,
      result |-> NoDoc, prev |-> NoDoc, touched |-> {}, endpoint |-> IdleEndpoint ]

\* everything but the photo collection, the store's faults, the adapter and
\* the clock
InitQuiet ==
    /\ instances = [s \in Schools |-> NewInstance(s, SeededStatus(s))]
    /\ registry = [s \in Schools |-> NoDoc]
    /\ calls = [c \in Calls |-> IdleCall]
    /\ obs = [c \in Calls |-> NoObs]
    /\ lastWriter = [p \in PhotoIds |-> 0]
    /\ sync_events = << >>
    /\ instances_cache = [s \in Schools |-> NoDoc]
    /\ tasks = [t \in Tasks |-> IdleTask]
    /\ batch = IdleBatch
    /\ retry = IdleRetry
    /\ recon = IdleRecon
    /\ ens = [k \in Clients |-> IdleEns]
    /\ ops = [k \in Clients |-> IdleOp]
    /\ mgr = IdleManager
    /\ stat = IdleStatus

\* everything but the photo collection and the store's faults
InitIdle ==
    /\ InitQuiet
    /\ adapter = NewAdapter
    /\ now = 0

\* a run of one component on its own
Alone == scenario = Null

InitStore ==
    /\ photos = [p \in PhotoIds |-> NewPhoto(p)]
    /\ photoprism_sync_events = << >>
    /\ InitIdle

Init ==
    /\ InitStore
    /\ storeBudget = 0


(* ------------- SyncCoordinator.sync_photo_to_photoprism --------------- *)

\* db.photos.find_one({"id": photo_id})
FindPhoto(id) == IF id \in PhotoIds THEN photos[id] ELSE NoDoc

\* a variant without the status filter
FindAnyInstance(s) == instances[s]

\* db.photoprism_instances.find_one({"school_id": s, "status": "active"});
\* NoDoc when there is none
FindActiveInstance(s) == IF instances[s].status = "active" THEN instances[s] ELSE NoDoc

\* a variant that constructs an adapter on every call
GetInstanceAlwaysNew(reg, s, config) ==
    [reg EXCEPT ![s] = [base_url |-> config.base_url, session_token |-> Null]]

\* PhotoPrismInstanceManager.get_instance_for_school: a cached adapter is
\* returned as it is, a missing one is built from the configuration passed
GetInstanceForSchool(reg, s, config) ==
    IF reg[s] = NoDoc
        THEN [reg EXCEPT ![s] = [base_url |-> config.base_url, session_token |-> Null]]
        ELSE reg

\* lines 65-69: the instance_config built from the instance document
InstanceConfig(inst) == [base_url |-> inst.base_url]

\* for attempt in range(self.max_retry_attempts)
LoopContinues(attempt) == attempt < max_retry_attempts

\* a variant that is off by one
ShouldRetryOffByOne(attempt) == attempt < max_retry_attempts

\* if attempt < self.max_retry_attempts - 1
ShouldRetry(attempt) == attempt < max_retry_attempts - 1

\* a variant that indexes the schedule by the 1-based attempt number
RetryDelayShifted(attempt) == retry_delays[Min(attempt + 1, Len(retry_delays) - 1) + 1]

\* self.retry_delays[min(attempt, len(self.retry_delays) - 1)], attempt 0-based
RetryDelay(attempt) == retry_delays[Min(attempt, Len(retry_delays) - 1) + 1]

\* the response of POST /api/v1/upload/{filename} to attempt a of call c
UploadResult(c, a) ==
    [ uuid |-> <<"uuid", c, a>>, filename |-> FilenameOf(calls[c].photo_id) ]

\* {"$set": {"status": SYNCED, "photoprism_uuid": ..., "photoprism_filename": ...}}
SyncedFields(doc, result) ==
    [doc EXCEPT !.status = "synced",
                !.photoprism_uuid = result.uuid,
                !.photoprism_filename = result.filename]

\* {"$set": {"status": FAILED, "updated_at": ...}}
FailedFields(doc) == [doc EXCEPT !.status = "failed"]

\* {"$set": {"event_status": PROCESSING, "updated_at": start_time}}
ProcessingFields(ev) == [ev EXCEPT !.event_status = "processing"]

\* a variant that inserts one more event for the attempt
BeginAttemptInsert(evs, id) == Append(evs, ProcessingFields(evs[id]))

\* lines 78-81: update_one({"id": sync_event.id}, ...): every attempt
\* rewrites the call's one event
BeginAttempt(evs, id) == [evs EXCEPT ![id] = ProcessingFields(@)]

\* {"$set": {"event_status": SUCCESS, "processing_time_ms": processing_time}}
SuccessFields(ev) ==
    [ev EXCEPT !.event_status = "success", !.processing_time_ms = "measured"]

\* a variant that puts the event back in the queue
FailureFieldsRequeued(ev, details) ==
    [ev EXCEPT !.event_status = "pending", !.error_details = details]

\* {"$set": {"event_status": FAILED, "processing_time_ms": ..., "error_details": ...}}
FailureFields(ev, details) ==
    [ev EXCEPT !.event_status = "failed", !.processing_time_ms = "measured",
               !.error_details = details]

\* db.photoprism_sync_events.insert_one(sync_event.dict())
InsertEvent(evs, ev) == Append(evs, ev)

\* a store operation raises (only while the budget of store faults lasts)
StoreRaises ==
    /\ storeBudget > 0
    /\ storeBudget' = storeBudget - 1

StoreWorks == UNCHANGED storeBudget

\* return False
Return(call, value) == [call EXCEPT !.pc = "done", !.ret = value]

\* a variant in which an exception ends the call at once
HandlerGivesUp(call, msg) == [call EXCEPT !.pc = "done", !.ret = FALSE]

\* except Exception as e (line 143): retry after a delay while attempts
\* remain, else the final failure of the handler. error_msg is kept only
\* where the code reads it again (line 164); before a retry it is only logged
Handler(call, msg) ==
    IF ShouldRetry(call.attempt)
        THEN [call EXCEPT !.pc = "sleep"]
        ELSE [call EXCEPT !.pc = "exc_fail_photo", !.error_msg = msg]

\* else branch of "if result" (line 115)
NoResult(call) ==
    IF ShouldRetry(call.attempt)
        THEN [call EXCEPT !.pc = "sleep"]
        ELSE [call EXCEPT !.pc = "fail_photo"]

WritePhoto(c, p, doc) ==
    /\ photos' = [photos EXCEPT ![p] = doc]
    /\ lastWriter' = [lastWriter EXCEPT ![p] = c]
    /\ obs' = [obs EXCEPT ![c].writes = @ + 1]

\* lines 31-36: the call starts and reads the photo
BeginSync(c, id) ==
    /\ calls[c].pc = "idle"
    /\ \/ /\ StoreWorks
          /\ calls' = [calls EXCEPT ![c] =
                IF FindPhoto(id) = NoDoc
                    THEN Return([@ EXCEPT !.photo_id = id], FALSE)
                    ELSE [@ EXCEPT !.pc = "find_instance", !.photo_id = id,
                                   !.photo = FindPhoto(id)]]
       \/ /\ StoreRaises
          /\ calls' = [calls EXCEPT ![c] = Return([@ EXCEPT !.photo_id = id], FALSE)]
    /\ UNCHANGED << photos, instances, photoprism_sync_events, registry, obs,
                    lastWriter, serverVars >>

\* the same, with the calls numbered in the order in which they start
StartSync(c, id) ==
    /\ \A d \in Calls : d < c => calls[d].pc # "idle"
    /\ BeginSync(c, id)

\* a sync_photo_to_photoprism call made on its own
SyncPhoto(c, id) ==
    /\ StartSync(c, id)
    /\ UNCHANGED extVars

\* lines 40-50: the school's active instance
FindInstance(c) ==
    /\ calls[c].pc = "find_instance"
    /\ \/ /\ StoreWorks
          /\ calls' = [calls EXCEPT ![c] =
                IF FindActiveInstance(calls[c].photo.school_id) = NoDoc
                    THEN Return(@, FALSE)
                    ELSE [@ EXCEPT !.pc = "insert_event",
                                   !.instance = FindActiveInstance(calls[c].photo.school_id).id,
                                   !.config = InstanceConfig(
                                       FindActiveInstance(calls[c].photo.school_id))]]
       \/ /\ StoreRaises
          /\ calls' = [calls EXCEPT ![c] = Return(@, FALSE)]
    /\ UNCHANGED << photos, instances, photoprism_sync_events, registry, obs,
                    lastWriter, serverVars >>
    /\ UNCHANGED extVars

\* lines 52-73: the sync event is inserted, the adapter is fetched and the
\* retry loop is entered
CreateEvent(c) ==
    /\ calls[c].pc = "insert_event"
    /\ \/ /\ StoreWorks
          /\ photoprism_sync_events' =
                InsertEvent(photoprism_sync_events,
                            NewSyncEvent(calls[c].photo_id, calls[c].instance))
          /\ registry' = GetInstanceForSchool(registry, calls[c].photo.school_id,
                                              calls[c].config)
          /\ calls' = [calls EXCEPT ![c] =
                IF LoopContinues(0)
                    THEN [@ EXCEPT !.pc = "mark_processing", !.attempt = 0,
                                   !.event_id = Len(photoprism_sync_events'),
                                   !.adapter = registry'[calls[c].photo.school_id].base_url]
                    ELSE Return([@ EXCEPT !.event_id = Len(photoprism_sync_events')], FALSE)]
       \/ /\ StoreRaises
          /\ calls' = [calls EXCEPT ![c] = Return(@, FALSE)]
          /\ UNCHANGED << photoprism_sync_events, registry >>
    /\ UNCHANGED << photos, instances, obs, lastWriter, serverVars >>
    /\ UNCHANGED extVars

\* lines 74-84: an attempt begins: the event is set to PROCESSING and the
\* upload is sent
MarkProcessing(c) ==
    /\ calls[c].pc = "mark_processing"
    /\ \/ /\ StoreWorks
          /\ photoprism_sync_events' = BeginAttempt(photoprism_sync_events, calls[c].event_id)
          /\ calls' = [calls EXCEPT ![c].pc = "uploading"]
          /\ obs' = [obs EXCEPT ![c].attempts = @ + 1, ![c].started = @ + 1]
       \/ /\ StoreRaises
          /\ calls' = [calls EXCEPT ![c] = Handler(@, "store error")]
          /\ obs' = [obs EXCEPT ![c].attempts = @ + 1]
          /\ UNCHANGED photoprism_sync_events
    /\ UNCHANGED << photos, instances, registry, lastWriter, serverVars >>
    /\ UNCHANGED extVars

\* lines 84-88, 115-121, 143-151: adapter.upload_photo returns a result,
\* returns None, or an exception escapes it
UploadReturn(c) ==
    /\ calls[c].pc = "uploading"
    /\ \/ /\ calls' = [calls EXCEPT ![c] =
                [@ EXCEPT !.pc = "write_synced",
                          !.result = UploadResult(c, calls[c].attempt)]]
          /\ obs' = [obs EXCEPT ![c].returned = @ + 1, ![c].accepted = @ + 1,
                                ![c].acceptedAt = obs[c].started]
       \/ /\ calls' = [calls EXCEPT ![c] = NoResult([@ EXCEPT !.result = NoDoc])]
          /\ obs' = [obs EXCEPT ![c].returned = @ + 1]
       \/ /\ calls' = [calls EXCEPT ![c] = Handler(@, "client error")]
          /\ obs' = [obs EXCEPT ![c].returned = @ + 1]
    /\ UNCHANGED << photos, instances, photoprism_sync_events, registry,
                    lastWriter, storeBudget, serverVars >>
    /\ UNCHANGED extVars

\* lines 120 and 150: await asyncio.sleep(delay), then the next iteration
Sleep(c) ==
    /\ calls[c].pc = "sleep"
    /\ obs' = [obs EXCEPT ![c].delays = Append(@, RetryDelay(calls[c].attempt)),
                          ![c].sleptAfter = Append(@, calls[c].attempt + 1)]
    /\ calls' = [calls EXCEPT ![c] =
            IF LoopContinues(calls[c].attempt + 1)
                THEN [@ EXCEPT !.pc = "mark_processing", !.attempt = @ + 1]
                ELSE Return([@ EXCEPT !.attempt = @ + 1], FALSE)]
    /\ UNCHANGED << photos, instances, photoprism_sync_events, registry,
                    lastWriter, storeBudget, serverVars >>
    /\ UNCHANGED extVars

\* lines 88-100: the photo is marked SYNCED
WriteSynced(c) ==
    /\ calls[c].pc = "write_synced"
    /\ \/ /\ StoreWorks
          /\ WritePhoto(c, calls[c].photo_id,
                        SyncedFields(photos[calls[c].photo_id], calls[c].result))
          /\ calls' = [calls EXCEPT ![c].pc = "event_success"]
       \/ /\ StoreRaises
          /\ calls' = [calls EXCEPT ![c] = Handler(@, "store error")]
          /\ UNCHANGED << photos, lastWriter, obs >>
    /\ UNCHANGED << instances, photoprism_sync_events, registry, serverVars >>
    /\ UNCHANGED extVars

\* lines 102-114: the event is marked SUCCESS and the call returns True
EventSuccess(c) ==
    /\ calls[c].pc = "event_success"
    /\ \/ /\ StoreWorks
          /\ photoprism_sync_events' =
                [photoprism_sync_events EXCEPT ![calls[c].event_id] = SuccessFields(@)]
          /\ calls' = [calls EXCEPT ![c] = Return(@, TRUE)]
       \/ /\ StoreRaises
          /\ calls' = [calls EXCEPT ![c] = Handler(@, "store error")]
          /\ UNCHANGED photoprism_sync_events
    /\ UNCHANGED << photos, instances, registry, obs, lastWriter, serverVars >>
    /\ UNCHANGED extVars

\* lines 121-126: final failure after a None result: the photo is marked FAILED
FailPhoto(c) ==
    /\ calls[c].pc = "fail_photo"
    /\ \/ /\ StoreWorks
          /\ WritePhoto(c, calls[c].photo_id, FailedFields(photos[calls[c].photo_id]))
          /\ calls' = [calls EXCEPT ![c].pc = "fail_event"]
       \/ /\ StoreRaises
          /\ calls' = [calls EXCEPT ![c] = Handler(@, "store error")]
          /\ UNCHANGED << photos, lastWriter, obs >>
    /\ UNCHANGED << instances, photoprism_sync_events, registry, serverVars >>
    /\ UNCHANGED extVars

\* lines 128-141: the event is marked FAILED and the call returns False
FailEvent(c) ==
    /\ calls[c].pc = "fail_event"
    /\ \/ /\ StoreWorks
          /\ photoprism_sync_events' =
                [photoprism_sync_events EXCEPT ![calls[c].event_id] =
                    FailureFields(@, "Upload failed after all retry attempts")]
          /\ calls' = [calls EXCEPT ![c] = Return(@, FALSE)]
       \/ /\ StoreRaises
          /\ calls' = [calls EXCEPT ![c] = Handler(@, "store error")]
          /\ UNCHANGED photoprism_sync_events
    /\ UNCHANGED << photos, instances, registry, obs, lastWriter, serverVars >>
    /\ UNCHANGED extVars

\* lines 151-156: final failure in the handler: the photo is marked FAILED;
\* an exception here reaches the outer handler (lines 173-175)
ExcFailPhoto(c) ==
    /\ calls[c].pc = "exc_fail_photo"
    /\ \/ /\ StoreWorks
          /\ WritePhoto(c, calls[c].photo_id, FailedFields(photos[calls[c].photo_id]))
          /\ calls' = [calls EXCEPT ![c].pc = "exc_fail_event"]
       \/ /\ StoreRaises
          /\ calls' = [calls EXCEPT ![c] = Return(@, FALSE)]
          /\ UNCHANGED << photos, lastWriter, obs >>
    /\ UNCHANGED << instances, photoprism_sync_events, registry, serverVars >>
    /\ UNCHANGED extVars

\* lines 158-171: the event is marked FAILED with the exception's message
ExcFailEvent(c) ==
    /\ calls[c].pc = "exc_fail_event"
    /\ \/ /\ StoreWorks
          /\ photoprism_sync_events' =
                [photoprism_sync_events EXCEPT ![calls[c].event_id] =
                    FailureFields(@, calls[c].error_msg)]
          /\ calls' = [calls EXCEPT ![c] = Return(@, FALSE)]
       \/ /\ StoreRaises
          /\ calls' = [calls EXCEPT ![c] = Return(@, FALSE)]
          /\ UNCHANGED photoprism_sync_events
    /\ UNCHANGED << photos, instances, registry, obs, lastWriter, serverVars >>
    /\ UNCHANGED extVars

Next ==
    \/ \E c \in Calls, id \in PhotoIds \cup {UnknownId} : SyncPhoto(c, id)
    \/ \E c \in Calls : FindInstance(c)
    \/ \E c \in Calls : CreateEvent(c)
    \/ \E c \in Calls : MarkProcessing(c)
    \/ \E c \in Calls : UploadReturn(c)
    \/ \E c \in Calls : Sleep(c)
    \/ \E c \in Calls : WriteSynced(c)
    \/ \E c \in Calls : EventSuccess(c)
    \/ \E c \in Calls : FailPhoto(c)
    \/ \E c \in Calls : FailEvent(c)
    \/ \E c \in Calls : ExcFailPhoto(c)
    \/ \E c \in Calls : ExcFailEvent(c)

InitAlone == Init /\ Alone

Spec == InitAlone /\ [][Next]_vars

\* the same calls against a store whose operations may raise
InitStoreFaults ==
    /\ InitStore
    /\ storeBudget = MaxStoreFaults

InitStoreFaultsAlone == InitStoreFaults /\ Alone

SpecStoreFaults == InitStoreFaultsAlone /\ [][Next]_vars

(* ------------- server.py: background task sync_photo_to_photoprism ---- *)

\* a SyncEvent document of server.py
NewServerEvent(p, inst) ==
    [ photo_id |-> p, instance_id |-> inst, event_type |-> "upload",
      event_status |-> "success", processing_time |-> "2000" ]

\* {"$set": {"sync_status": SYNCING, "last_sync_attempt": utcnow()}}
SyncingFields(doc) ==
    [doc EXCEPT !.sync_status = "syncing", !.last_sync_attempt = "set"]

\* the version the task writes: the one it read at its start, plus one
BumpedVersion(photo) == photo.sync_version + 1

\* {"$set": {"sync_status": SYNCED, "photoprism_uuid": uuid4(),
\*           "photoprism_instance_id": instance.id,
\*           "sync_version": photo.sync_version + 1}}
ServerSyncedFields(doc, t, photo, inst) ==
    [doc EXCEPT !.sync_status = "synced",
                !.photoprism_uuid = <<"uuid4", t>>,
                !.photoprism_instance_id = inst,
                !.sync_version = BumpedVersion(photo)]

\* {"$set": {"sync_status": FAILED, "sync_errors": [str(e)]}}
ServerFailedFields(doc, msg) ==
    [doc EXCEPT !.sync_status = "failed", !.sync_errors = <<msg>>]

\* except Exception as e (line 449): the handler's own write is still to come
TaskHandler(task) == [task EXCEPT !.pc = "set_failed"]

TaskWritePhoto(t, p, doc) ==
    /\ photos' = [photos EXCEPT ![p] = doc]
    /\ lastWriter' = [lastWriter EXCEPT ![p] = NumCalls + t]

\* lines 404-409: the task starts and reads the photo
TaskStart(t, id) ==
    /\ tasks[t].pc = "idle"
    /\ \A u \in Tasks : u < t => tasks[u].pc # "idle"   \* tasks are numbered as they start
    /\ \/ /\ StoreWorks
          /\ tasks' = [tasks EXCEPT ![t] =
                IF FindPhoto(id) = NoDoc
                    THEN [@ EXCEPT !.pc = "done", !.photo_id = id]
                    ELSE [@ EXCEPT !.pc = "get_instance", !.photo_id = id,
                                   !.photo = FindPhoto(id)]]
       \/ /\ StoreRaises
          /\ tasks' = [tasks EXCEPT ![t] = TaskHandler([@ EXCEPT !.photo_id = id])]
    /\ UNCHANGED << photos, instances, photoprism_sync_events, registry, calls,
                    obs, lastWriter, sync_events, instances_cache >>
    /\ UNCHANGED extVars

\* lines 410-414 and PhotoPrismAdapter.get_instance_for_school (269-279):
\* the cached instance, else the school's instance document whatever its status
TaskGetInstance(t) ==
    /\ tasks[t].pc = "get_instance"
    /\ LET s == tasks[t].photo.school_id IN
       \/ /\ instances_cache[s] # NoDoc
          /\ tasks' = [tasks EXCEPT ![t] =
                [@ EXCEPT !.pc = "set_syncing", !.instance = instances_cache[s].id]]
          /\ UNCHANGED << instances_cache, storeBudget >>
       \/ /\ instances_cache[s] = NoDoc
          /\ StoreWorks
          /\ instances_cache' = [instances_cache EXCEPT ![s] = instances[s]]
          /\ tasks' = [tasks EXCEPT ![t] =
                [@ EXCEPT !.pc = "set_syncing", !.instance = instances[s].id]]
       \/ /\ instances_cache[s] = NoDoc
          /\ StoreRaises
          /\ tasks' = [tasks EXCEPT ![t] = TaskHandler(@)]
          /\ UNCHANGED instances_cache
    /\ UNCHANGED << photos, instances, photoprism_sync_events, registry, calls,
                    obs, lastWriter, sync_events >>
    /\ UNCHANGED extVars

\* lines 416-423: the photo is marked SYNCING
TaskSetSyncing(t) ==
    /\ tasks[t].pc = "set_syncing"
    /\ \/ /\ StoreWorks
          /\ TaskWritePhoto(t, tasks[t].photo_id,
                            SyncingFields(photos[tasks[t].photo_id]))
          /\ tasks' = [tasks EXCEPT ![t].pc = "set_synced"]
       \/ /\ StoreRaises
          /\ tasks' = [tasks EXCEPT ![t] = TaskHandler(@)]
          /\ UNCHANGED << photos, lastWriter >>
    /\ UNCHANGED << instances, photoprism_sync_events, registry, calls, obs,
                    sync_events, instances_cache >>
    /\ UNCHANGED extVars

\* lines 425-437: after the simulated upload (asyncio.sleep(2)) the photo is
\* marked SYNCED with the bumped version
TaskSetSynced(t) ==
    /\ tasks[t].pc = "set_synced"
    /\ \/ /\ StoreWorks
          /\ TaskWritePhoto(t, tasks[t].photo_id,
                            ServerSyncedFields(photos[tasks[t].photo_id], t,
                                               tasks[t].photo, tasks[t].instance))
          /\ tasks' = [tasks EXCEPT ![t].pc = "log_event"]
       \/ /\ StoreRaises
          /\ tasks' = [tasks EXCEPT ![t] = TaskHandler(@)]
          /\ UNCHANGED << photos, lastWriter >>
    /\ UNCHANGED << instances, photoprism_sync_events, registry, calls, obs,
                    sync_events, instances_cache >>
    /\ UNCHANGED extVars

\* lines 439-447: the successful sync is logged
TaskLogEvent(t) ==
    /\ tasks[t].pc = "log_event"
    /\ \/ /\ StoreWorks
          /\ sync_events' = Append(sync_events,
                                   NewServerEvent(tasks[t].photo_id, tasks[t].instance))
          /\ tasks' = [tasks EXCEPT ![t].pc = "done"]
       \/ /\ StoreRaises
          /\ tasks' = [tasks EXCEPT ![t] = TaskHandler(@)]
          /\ UNCHANGED sync_events
    /\ UNCHANGED << photos, instances, photoprism_sync_events, registry, calls,
                    obs, lastWriter, instances_cache >>
    /\ UNCHANGED extVars

\* lines 449-459: the handler marks the photo FAILED; when this write raises
\* too the exception leaves the task. An update of an id no document carries
\* matches nothing
TaskSetFailed(t) ==
    /\ tasks[t].pc = "set_failed"
    /\ \/ /\ StoreWorks
          /\ IF tasks[t].photo_id \in PhotoIds
                THEN TaskWritePhoto(t, tasks[t].photo_id,
                        ServerFailedFields(photos[tasks[t].photo_id], "store error"))
                ELSE UNCHANGED << photos, lastWriter >>
       \/ /\ StoreRaises
          /\ UNCHANGED << photos, lastWriter >>
    /\ tasks' = [tasks EXCEPT ![t].pc = "done"]
    /\ UNCHANGED << instances, photoprism_sync_events, registry, calls, obs,
                    sync_events, instances_cache >>
    /\ UNCHANGED extVars

NextServer ==
    \/ \E t \in Tasks, id \in PhotoIds \cup {UnknownId} : TaskStart(t, id)
    \/ \E t \in Tasks : TaskGetInstance(t)
    \/ \E t \in Tasks : TaskSetSyncing(t)
    \/ \E t \in Tasks : TaskSetSynced(t)
    \/ \E t \in Tasks : TaskLogEvent(t)
    \/ \E t \in Tasks : TaskSetFailed(t)

InitServer ==
    /\ InitStore
    /\ storeBudget = MaxStoreFaults

InitServerAlone == InitServer /\ Alone

SpecServer == InitServerAlone /\ [][NextServer]_vars

(* ----------- SyncCoordinator.batch_sync_photos, retry_failed_syncs ----- *)

\* max_concurrent: int = 5
default_max_concurrent == 5

\* the writer recorded for a photo that retry_failed_syncs has reset
RetryWriter == NumCalls + NumTasks + 1

\* the ids of a set, in the order of their insertion into the collection
RECURSIVE SetToSeq(_)
SetToSeq(S) ==
    IF S = {} THEN << >>
    ELSE LET m == CHOOSE x \in S : \A y \in S : x <= y
         IN  <<m>> \o SetToSeq(S \ {m})

\* the photo lists a caller passes to batch_sync_photos, one
\* sync_photo_to_photoprism call per entry: no photo, every photo, a list with
\* an id no photo carries, and a list that repeats one photo
EveryPhoto == [i \in 1..Min(NumPhotos, NumCalls) |-> i]

BatchInputs ==
    { << >>, EveryPhoto, [EveryPhoto EXCEPT ![1] = UnknownId],
      [i \in DOMAIN EveryPhoto |-> 1] }

\* the photo collections a batch or a retry is run on: photos whose last sync
\* failed, of one school or of several, next to a photo that is synced
SeededFailed(p, s) == FailedFields([NewPhoto(p) EXCEPT !.school_id = s])

SeededSynced(p, s) ==
    SyncedFields([NewPhoto(p) EXCEPT !.school_id = s],
                 [uuid |-> <<"uuid", 0, p>>, filename |-> FilenameOf(p)])

BatchSeeds ==
    { [p \in PhotoIds |-> SeededFailed(p, SchoolOf(p))],
      [p \in PhotoIds |-> SeededFailed(p, 1)],
      [p \in PhotoIds |-> IF p = 1 THEN SeededSynced(p, 1) ELSE SeededFailed(p, 1)] }

\* the tasks of the gather that hold the semaphore: entered "async with
\* semaphore" and their sync_photo_to_photoprism has not returned
Holders == {i \in batch.acquired : calls[i].pc # "done"}

\* a variant in which the semaphore never blocks
SemaphoreAlwaysFree == TRUE

\* asyncio.Semaphore(max_concurrent): acquire returns at once while _value > 0
SemaphoreFree == batch.max_concurrent - Cardinality(Holders) > 0

\* line 183-191: the semaphore is created and the tasks are handed to gather
StartBatch(ids, mc, who) ==
    [ IdleBatch EXCEPT !.pc = "gathering", !.photo_ids = ids,
                       !.max_concurrent = mc, !.caller = who ]

\* what gather returns for task i: the pair returned at line 188.
\* sync_photo_to_photoprism catches every Exception (lines 173-175), so no
\* task ends with one
TaskResult(i) ==
    [ raised |-> FALSE, photo_id |-> batch.photo_ids[i], success |-> calls[i].ret ]

\* sync_results[photo_id] = success
Put(f, k, v) == [x \in DOMAIN f \cup {k} |-> IF x = k THEN v ELSE f[x]]

\* a variant that keeps only the photos that were synced
CollectSynced(results, acc) ==
    [x \in {results[i].photo_id : i \in {j \in DOMAIN results : results[j].success}} |-> TRUE]

\* lines 193-199: the results are read in the order of the input list; an
\* exception is logged and leaves no entry
RECURSIVE CollectResults(_, _)
CollectResults(results, acc) ==
    IF results = << >> THEN acc
    ELSE CollectResults(Tail(results),
                        IF Head(results).raised THEN acc
                        ELSE Put(acc, Head(results).photo_id, Head(results).success))

\* batch_sync_photos(photo_ids, max_concurrent) called on its own
BatchSyncPhotos(ids, mc) ==
    /\ batch.pc = "idle"
    /\ retry.pc = "idle"
    /\ batch' = StartBatch(ids, mc, "caller")
    /\ UNCHANGED << photos, instances, photoprism_sync_events, registry, calls,
                    obs, lastWriter, storeBudget, serverVars, retry, recon,
                    sessionVars,
                    moreVars >>

\* lines 185-187: task i enters the semaphore and its sync starts. Tasks run
\* in the order gather created them and waiters are woken first in, first out
BatchAcquire(i) ==
    /\ batch.pc = "gathering"
    /\ i \in DOMAIN batch.photo_ids
    /\ i \notin batch.acquired
    /\ \A j \in 1..(i - 1) : j \in batch.acquired
    /\ SemaphoreFree
    /\ batch' = [batch EXCEPT !.acquired = @ \cup {i}]
    /\ StartSync(i, batch.photo_ids[i])
    /\ UNCHANGED << retry, recon, sessionVars,
                    moreVars >>

\* lines 191-201: every task has returned: the map is built and returned; a
\* retry_failed_syncs that awaited the batch returns its list (line 369)
BatchGather ==
    /\ batch.pc = "gathering"
    /\ \A i \in DOMAIN batch.photo_ids : i \in batch.acquired /\ calls[i].pc = "done"
    /\ batch' = [batch EXCEPT
            !.pc = "done",
            !.ret = CollectResults([i \in DOMAIN batch.photo_ids |-> TaskResult(i)],
                                   << >>)]
    /\ retry' = IF batch.caller = "retry"
                    THEN [retry EXCEPT !.pc = "done", !.ret = retry.photo_ids]
                    ELSE retry
    /\ UNCHANGED << photos, instances, photoprism_sync_events, registry, calls,
                    obs, lastWriter, storeBudget, serverVars, recon, sessionVars,
                    moreVars >>

\* a variant without the school filter
FailedPhotosOfAnySchool(s) == {p \in PhotoIds : photos[p].status = "failed"}

\* db.photos.find({"school_id": s, "status": FAILED})
FailedPhotos(s) ==
    {p \in PhotoIds : photos[p].school_id = s /\ photos[p].status = "failed"}

\* .limit(limit).to_list(None): limit of the matching documents; the store
\* chooses which
Limited(match, limit) ==
    {sel \in SUBSET match : Cardinality(sel) = Min(limit, Cardinality(match))}

\* {"$set": {"status": PENDING, "updated_at": ...}}
PendingFields(doc) == [doc EXCEPT !.status = "pending"]

\* lines 350-359 and 369-373: the failed photos are read; with none, or when
\* the read raises, the call returns at once
RetryFailedSyncs(s, limit) ==
    /\ retry.pc = "idle"
    /\ batch.pc = "idle"
    /\ \/ /\ StoreWorks
          /\ \E sel \in Limited(FailedPhotos(s), limit) :
                retry' = [retry EXCEPT
                    !.pc = IF sel = {} THEN "done" ELSE "reset",
                    !.school_id = s, !.limit = limit,
                    !.photo_ids = SetToSeq(sel), !.ret = SetToSeq(sel),
                    !.before = photos]
       \/ /\ StoreRaises
          /\ retry' = [retry EXCEPT !.pc = "done", !.school_id = s, !.limit = limit,
                                    !.before = photos]
    /\ UNCHANGED << photos, instances, photoprism_sync_events, registry, calls,
                    obs, lastWriter, serverVars, batch, recon, sessionVars,
                    moreVars >>

\* lines 359-367: update_many resets the photos read to PENDING, whatever
\* their status is by now, and the batch is started on them
RetryReset ==
    /\ retry.pc = "reset"
    /\ \/ /\ StoreWorks
          /\ LET ids == {retry.photo_ids[i] : i \in DOMAIN retry.photo_ids} IN
             /\ photos' = [p \in PhotoIds |->
                    IF p \in ids THEN PendingFields(photos[p]) ELSE photos[p]]
             /\ lastWriter' = [p \in PhotoIds |->
                    IF p \in ids THEN RetryWriter ELSE lastWriter[p]]
          /\ retry' = [retry EXCEPT !.pc = "batching"]
          /\ batch' = StartBatch(retry.photo_ids, default_max_concurrent, "retry")
       \/ /\ StoreRaises
          /\ retry' = [retry EXCEPT !.pc = "done", !.ret = << >>]
          /\ UNCHANGED << photos, lastWriter, batch >>
    /\ UNCHANGED << instances, photoprism_sync_events, registry, calls, obs,
                    serverVars, recon, sessionVars,
                    moreVars >>

NextBatch ==
    \/ \E ids \in BatchInputs, mc \in 1..NumCalls : BatchSyncPhotos(ids, mc)
    \/ \E s \in Schools, limit \in 1..Min(NumPhotos, NumCalls) : RetryFailedSyncs(s, limit)
    \/ RetryReset
    \/ \E i \in Calls : BatchAcquire(i)
    \/ BatchGather
    \/ \E c \in Calls : FindInstance(c)
    \/ \E c \in Calls : CreateEvent(c)
    \/ \E c \in Calls : MarkProcessing(c)
    \/ \E c \in Calls : UploadReturn(c)
    \/ \E c \in Calls : Sleep(c)
    \/ \E c \in Calls : WriteSynced(c)
    \/ \E c \in Calls : EventSuccess(c)
    \/ \E c \in Calls : FailPhoto(c)
    \/ \E c \in Calls : FailEvent(c)
    \/ \E c \in Calls : ExcFailPhoto(c)
    \/ \E c \in Calls : ExcFailEvent(c)

InitBatch ==
    /\ photos \in BatchSeeds
    /\ photoprism_sync_events = << >>
    /\ InitIdle
    /\ storeBudget = 0

InitBatchAlone == InitBatch /\ Alone

SpecBatch == InitBatchAlone /\ [][NextBatch]_vars

(* ------------- SyncCoordinator.reconcile_school_photos ---------------- *)

\* the writer recorded for a photo that reconcile_school_photos has reset
ReconWriter == NumCalls + NumTasks + 2

\* the uuids PhotoPrism knows: the one of each synced photo and, with 0, one
\* that no local photo carries
RemoteUuid(k) == <<"uuid", 0, k>>

RemoteItem(k) == [uuid |-> RemoteUuid(k), filename |-> <<"file", k>>]

\* the lists GET /api/v1/photos can answer with, the empty one included
RemoteLists ==
    { [i \in DOMAIN SetToSeq(K) |-> RemoteItem(SetToSeq(K)[i])] :
        K \in SUBSET (0..NumPhotos) }

\* the photo collections reconcile is run on: every photo of any school,
\* never synced or synced; and the event each sync has left
ReconSeeds ==
    { [p \in PhotoIds |->
          IF p \in S THEN SeededSynced(p, sch[p])
                     ELSE [NewPhoto(p) EXCEPT !.school_id = sch[p]]] :
        S \in SUBSET PhotoIds, sch \in [PhotoIds -> Schools] }

SeededEvents(ps) ==
    [i \in DOMAIN SetToSeq({p \in PhotoIds : ps[p].status = "synced"}) |->
        SuccessFields(NewSyncEvent(
            SetToSeq({p \in PhotoIds : ps[p].status = "synced"})[i],
            <<"instance", 1>>))]

\* db.photos.find({"school_id": s}).to_list(None)
PhotosOfSchool(s) ==
    [i \in DOMAIN SetToSeq({p \in PhotoIds : photos[p].school_id = s}) |->
        [ id |-> SetToSeq({p \in PhotoIds : photos[p].school_id = s})[i],
          doc |-> photos[SetToSeq({p \in PhotoIds : photos[p].school_id = s})[i]] ]]

\* a variant that never misses an instance
ReconNoInstanceNever(inst) == FALSE

\* if not instance_data
ReconNoInstance(inst) == inst = NoDoc

\* a variant that repairs on a dry run too
ShouldRepairAlways(dry_run) == TRUE

\* if not dry_run
ShouldRepair(dry_run) == ~dry_run

\* a variant that takes None for an empty list of photos
NoneIsAnEmptyList(found) == TRUE

\* if photoprism_photos: None and the empty list are both false
Truthy(found) == ~found.none /\ found.items # << >>

\* photoprism_by_uuid (line 251), as the set of its keys
PhotoprismByUuid(items) == {items[i].uuid : i \in DOMAIN items}

\* yabook_by_uuid (line 250), as the set of its keys
YabookByUuid(locals) ==
    {locals[i].doc.photoprism_uuid :
        i \in {j \in DOMAIN locals : locals[j].doc.photoprism_uuid # NoId}}

\* lines 254-260: the local photos with a uuid PhotoPrism did not list
OrphanedYabook(locals, items) ==
    LET orphan(l) == /\ l.doc.photoprism_uuid # NoId
                     /\ l.doc.photoprism_uuid \notin PhotoprismByUuid(items)
        entry(l) == [ id |-> l.id, filename |-> FilenameOf(l.id),
                      photoprism_uuid |-> l.doc.photoprism_uuid ]
    IN  [i \in DOMAIN SelectSeq(locals, orphan) |-> entry(SelectSeq(locals, orphan)[i])]

\* a variant that reports every item PhotoPrism listed
EveryRemoteItem(locals, items) == [i \in DOMAIN items |-> items[i]]

\* lines 262-267: the items PhotoPrism listed whose uuid no local photo carries
OrphanedPhotoprism(locals, items) ==
    LET orphan(r) == r.uuid \notin YabookByUuid(locals)
    IN  SelectSeq(items, orphan)

\* {"$set": {"status": PENDING, "photoprism_uuid": None,
\*           "photoprism_filename": None, "updated_at": ...}}
ResetFields(doc) ==
    [doc EXCEPT !.status = "pending", !.photoprism_uuid = NoId,
                !.photoprism_filename = NoId]

\* lines 286-295: completed_at is set and the report is returned
ReconReturn(r) == [r EXCEPT !.pc = "done"]

\* except Exception as e (line 291)
ReconHandler(r, msg) == [r EXCEPT !.pc = "done", !.error = msg]

\* lines 207-222: the call starts and reads the school's photos
ReconcileSchoolPhotos(s, dry_run) ==
    /\ recon.pc = "idle"
    /\ \/ /\ StoreWorks
          /\ recon' = [recon EXCEPT
                !.pc = "find_instance", !.school_id = s, !.dry_run = dry_run,
                !.yabook_photos = PhotosOfSchool(s),
                !.before = <<photos, photoprism_sync_events>>]
       \/ /\ StoreRaises
          /\ recon' = ReconHandler([recon EXCEPT
                !.school_id = s, !.dry_run = dry_run,
                !.before = <<photos, photoprism_sync_events>>], "store error")
    /\ UNCHANGED << photos, instances, photoprism_sync_events, registry, calls,
                    obs, lastWriter, serverVars, batchVars, sessionVars,
                    moreVars >>

\* lines 224-245: without an active instance the report gets its error and is
\* returned; else the adapter is fetched and the search is sent
ReconFindInstance ==
    /\ recon.pc = "find_instance"
    /\ \/ /\ StoreWorks
          /\ IF ReconNoInstance(FindActiveInstance(recon.school_id))
                THEN /\ recon' = [recon EXCEPT
                            !.pc = "done",
                            !.error = "No active PhotoPrism instance found"]
                     /\ UNCHANGED registry
                ELSE /\ recon' = [recon EXCEPT !.pc = "searching"]
                     /\ registry' = GetInstanceForSchool(registry, recon.school_id,
                                                         instances[recon.school_id])
       \/ /\ StoreRaises
          /\ recon' = ReconHandler(recon, "store error")
          /\ UNCHANGED registry
    /\ UNCHANGED << photos, instances, photoprism_sync_events, calls, obs,
                    lastWriter, serverVars, batchVars, sessionVars,
                    moreVars >>

\* lines 246-267 and 270: the report after the search has returned
Compared(r, found) ==
    IF Truthy(found)
        THEN [r EXCEPT
                !.photoprism_photos = found,
                !.orphaned_yabook = OrphanedYabook(r.yabook_photos, found.items),
                !.orphaned_photoprism = OrphanedPhotoprism(r.yabook_photos, found.items)]
        ELSE [r EXCEPT !.photoprism_photos = found]

\* the loop of lines 272-284 has an update to make
Repairs(r) ==
    /\ Truthy(r.photoprism_photos)
    /\ ShouldRepair(r.dry_run)
    /\ Len(r.actions_taken) < Len(r.orphaned_yabook)

AfterSearch(r, found, sent) ==
    LET c == [Compared(r, found) EXCEPT !.requests = r.requests \o sent]
    IN  IF Repairs(c) THEN [c EXCEPT !.pc = "reset"] ELSE ReconReturn(c)

\* adapter.search_photos returns (photoprism_adapter.py lines 101-135): the
\* session is ensured, by a login when the adapter holds no token, and the
\* search is sent; a failed login or a failed search gives None
ReconSearchAmong(lists) ==
    /\ recon.pc = "searching"
    /\ LET s == recon.school_id
           login == IF registry[s].session_token = Null
                        THEN << "POST /api/v1/session" >> ELSE << >>
           signedIn == [registry EXCEPT ![s].session_token = "token"]
       IN  \/ /\ login # << >>
              /\ recon' = AfterSearch(recon, NoRemote, login)
              /\ UNCHANGED registry
           \/ /\ recon' = AfterSearch(recon, NoRemote, login \o << "GET /api/v1/photos" >>)
              /\ registry' = signedIn
           \/ \E items \in lists :
                 /\ recon' = AfterSearch(recon, [none |-> FALSE, items |-> items],
                                         login \o << "GET /api/v1/photos" >>)
                 /\ registry' = signedIn
    /\ UNCHANGED << photos, instances, photoprism_sync_events, calls, obs,
                    lastWriter, storeBudget, serverVars, batchVars, sessionVars,
                    moreVars >>

\* the same against a PhotoPrism that may hold any of the photos
ReconSearch == ReconSearchAmong(RemoteLists)

\* lines 272-284: the next orphan of the report is reset and the action is
\* recorded; after the last one the report is returned
ReconReset ==
    /\ recon.pc = "reset"
    /\ LET orphan == recon.orphaned_yabook[Len(recon.actions_taken) + 1] IN
       \/ /\ StoreWorks
          /\ photos' = [photos EXCEPT ![orphan.id] = ResetFields(@)]
          /\ lastWriter' = [lastWriter EXCEPT ![orphan.id] = ReconWriter]
          /\ recon' =
                LET r == [recon EXCEPT !.actions_taken = Append(@, orphan.id)]
                IN  IF Repairs(r) THEN r ELSE ReconReturn(r)
       \/ /\ StoreRaises
          /\ recon' = ReconHandler(recon, "store error")
          /\ UNCHANGED << photos, lastWriter >>
    /\ UNCHANGED << instances, photoprism_sync_events, registry, calls, obs,
                    serverVars, batchVars, sessionVars,
                    moreVars >>

NextRecon ==
    \/ \E s \in Schools, dry_run \in BOOLEAN : ReconcileSchoolPhotos(s, dry_run)
    \/ ReconFindInstance
    \/ ReconSearch
    \/ ReconReset

InitRecon ==
    /\ photos \in ReconSeeds
    /\ photoprism_sync_events = SeededEvents(photos)
    /\ InitIdle
    /\ storeBudget = 0

InitReconAlone == InitRecon /\ Alone

SpecRecon == InitReconAlone /\ [][NextRecon]_vars

(* ------------- PhotoPrismAdapter._ensure_session, _authenticate ------- *)

\* a variant without a margin
NoMargin == 5 - 5

\* timedelta(minutes=5), the margin of _ensure_session
expiry_margin == 5

\* timedelta(minutes=50), the expiry _authenticate sets
session_lifetime == 50

\* the times at which the clock is read: the first minutes, when a token is
\* issued, and for each of them the minutes around the margin and the expiry
Instants ==
    UNION { { t, t + 44, t + 45, t + 49, t + 50 } : t \in 0..MaxIssue }

\* a variant that looks at the token only
SessionValidByTokenOnly == adapter.session_token # NoId

\* lines 30-31: self.session_token and self.session_expires
\*              and datetime.utcnow() < self.session_expires - timedelta(minutes=5)
SessionValid ==
    /\ adapter.session_token # NoId
    /\ adapter.session_expires # NoTime
    /\ now < adapter.session_expires - expiry_margin

\* the age of the cached token, NoTime when there is none
TokenAge == IF adapter.session_token # NoId THEN now - adapter.issued_at ELSE NoTime

\* lines 54-58: a 200 response: the token is data.get("id"), which is None
\* when the body has no id, and the expiry is set
Authenticated(token) ==
    [ session_token |-> token,
      session_expires |-> now + session_lifetime,
      issued_at |-> IF token = NoId THEN NoTime ELSE now ]

\* the clock moves on
Tick(t) ==
    /\ t \in Instants
    /\ t > now
    /\ now' = t
    /\ UNCHANGED << photos, instances, photoprism_sync_events, registry, calls,
                    obs, lastWriter, storeBudget, serverVars, batchVars, recon,
                    adapter, ens,
                    moreVars >>

\* lines 26-34: _ensure_session is called: with a valid session it returns
\* True at once, else the login request of _authenticate is sent
EnsureSession(k) ==
    /\ ens[k].pc \in {"idle", "done"}
    /\ ens' = [ens EXCEPT ![k] =
            IF SessionValid
                THEN [IdleEns EXCEPT !.pc = "done", !.ret = TRUE, !.age = TokenAge]
                ELSE [IdleEns EXCEPT !.pc = "authenticating", !.requests = 1,
                                     !.age = TokenAge]]
    /\ UNCHANGED << photos, instances, photoprism_sync_events, registry, calls,
                    obs, lastWriter, storeBudget, serverVars, batchVars, recon,
                    adapter, now,
                    moreVars >>

\* lines 51-65: the login is answered: 200 with an id, 200 without one, or
\* another status or an exception; _ensure_session returns what
\* _authenticate returns
AuthReturn(k) ==
    /\ ens[k].pc = "authenticating"
    /\ \/ /\ adapter' = Authenticated(<<"token", k>>)
          /\ ens' = [ens EXCEPT ![k].pc = "done", ![k].ret = TRUE, ![k].auth_ok = TRUE]
       \/ /\ adapter' = Authenticated(NoId)
          /\ ens' = [ens EXCEPT ![k].pc = "done", ![k].ret = TRUE, ![k].auth_ok = TRUE]
       \/ /\ ens' = [ens EXCEPT ![k].pc = "done", ![k].ret = FALSE, ![k].auth_ok = FALSE]
          /\ UNCHANGED adapter
    /\ UNCHANGED << photos, instances, photoprism_sync_events, registry, calls,
                    obs, lastWriter, storeBudget, serverVars, batchVars, recon,
                    now,
                    moreVars >>

NextSession ==
    \/ \E t \in Instants : Tick(t)
    \/ \E k \in Clients : EnsureSession(k)
    \/ \E k \in Clients : AuthReturn(k)

SpecSession == InitAlone /\ [][NextSession]_vars

(* ------------- PhotoPrismAdapter: the authenticated operations -------- *)

\* upload_photo, search_photos, get_photo_metadata, trigger_indexing
OpKinds == {"upload_photo", "search_photos", "get_photo_metadata", "trigger_indexing"}

\* what an operation returns when it fails: False for trigger_indexing
\* (lines 185, 201, 205), None for the others (lines 73, 95, 99)
Sentinel(kind) == IF kind = "trigger_indexing" THEN "False" ELSE "None"

\* what an operation returns on a 200 response: True for trigger_indexing
\* (line 197), the decoded body for the others (lines 91, 127, 156)
Value(kind) == IF kind = "trigger_indexing" THEN "True" ELSE "json"

\* the token a login issues to operation k
IssuedTo(k) == << "token", k >>

\* a variant that goes on to the operation's request whatever _ensure_session
\* returned
AfterEnsureSendsAnyway(o, ok, token) ==
    [o EXCEPT !.ensured = IF ok THEN "True" ELSE "False",
              !.pc = "sending", !.requests = << token >>]

\* lines 71-87: "if not await self._ensure_session(): return None"; else the
\* request is built with headers = {"X-Session-ID": self.session_token} and
\* sent
AfterEnsure(o, ok, token) ==
    IF ok
        THEN [o EXCEPT !.ensured = "True", !.pc = "sending", !.requests = << token >>]
        ELSE [o EXCEPT !.ensured = "False", !.pc = "done", !.ret = Sentinel(o.kind)]

\* a variant without the except clause: the exception reaches the caller
OnExceptionPropagate(o) == [o EXCEPT !.pc = "raised"]

\* "except Exception as e: ... return None" (lines 97-99, 133-135, 162-164,
\* 203-205)
OnException(o) == [o EXCEPT !.pc = "done", !.ret = Sentinel(o.kind)]

\* an operation is called: _ensure_session returns True at once with a valid
\* session, and the operation's request is sent in the same stretch; else the
\* login request of _authenticate is sent. Operations start in index order
ClientCall(k, kind) ==
    /\ ops[k].pc = "idle"
    /\ \A j \in 1..(k - 1) : ops[j].pc # "idle"
    /\ ops' = [ops EXCEPT ![k] =
            IF SessionValid
                THEN AfterEnsure([@ EXCEPT !.kind = kind], TRUE, adapter.session_token)
                ELSE [@ EXCEPT !.kind = kind, !.pc = "authenticating", !.logins = 1]]
    /\ UNCHANGED << photos, instances, photoprism_sync_events, registry, calls,
                    obs, lastWriter, storeBudget, serverVars, batchVars, recon,
                    sessionVars, mgr, stat, scenario >>

\* lines 51-65 and 71-87: the login is answered: 200 with an id, 200 without
\* one, or another status or an exception. _ensure_session returns what
\* _authenticate returns, and on True the operation reads self.session_token
\* for its header before it is suspended again
ClientAuthReturn(k) ==
    /\ ops[k].pc = "authenticating"
    /\ \/ /\ adapter' = Authenticated(IssuedTo(k))
          /\ ops' = [ops EXCEPT ![k] = AfterEnsure(@, TRUE, IssuedTo(k))]
       \/ /\ adapter' = Authenticated(NoId)
          /\ ops' = [ops EXCEPT ![k] = AfterEnsure(@, TRUE, NoId)]
       \/ /\ UNCHANGED adapter
          /\ ops' = [ops EXCEPT ![k] = AfterEnsure(@, FALSE, NoId)]
    /\ UNCHANGED << photos, instances, photoprism_sync_events, registry, calls,
                    obs, lastWriter, storeBudget, serverVars, batchVars, recon,
                    now, ens, mgr, stat, scenario >>

\* lines 83-99: the operation's request is answered with 200, with another
\* status, or an exception is raised (a network error, a timeout, or the
\* header that cannot be built from a None token) and caught
ClientReturn(k) ==
    /\ ops[k].pc = "sending"
    /\ \/ /\ ops[k].requests[1] # NoId
          /\ ops' = [ops EXCEPT ![k] = [@ EXCEPT !.pc = "done", !.ret = Value(ops[k].kind)]]
       \/ /\ ops[k].requests[1] # NoId
          /\ ops' = [ops EXCEPT ![k] = [@ EXCEPT !.pc = "done", !.ret = Sentinel(ops[k].kind)]]
       \/ ops' = [ops EXCEPT ![k] = OnException(@)]
    /\ UNCHANGED << photos, instances, photoprism_sync_events, registry, calls,
                    obs, lastWriter, storeBudget, serverVars, batchVars, recon,
                    sessionVars, mgr, stat, scenario >>

NextClient ==
    \/ \E k \in Clients, kind \in OpKinds : ClientCall(k, kind)
    \/ \E k \in Clients : ClientAuthReturn(k)
    \/ \E k \in Clients : ClientReturn(k)

\* the minutes since the login at which the operations are called: at once,
\* within the margin, at the expiry
CallTimes == {0, session_lifetime - expiry_margin, session_lifetime}

\* the adapter the operations are called on: a new one, or one that logged
\* in at minute 0
ClientSeeds ==
    { [a |-> NewAdapter, t |-> 0] }
      \cup { [a |-> [session_token |-> IssuedTo(0), session_expires |-> session_lifetime,
                     issued_at |-> 0],
              t |-> t] : t \in CallTimes }

InitClient ==
    /\ photos = [p \in PhotoIds |-> NewPhoto(p)]
    /\ photoprism_sync_events = << >>
    /\ storeBudget = 0
    /\ InitQuiet
    /\ \E seed \in ClientSeeds : adapter = seed.a /\ now = seed.t

InitClientAlone == InitClient /\ Alone

SpecClient == InitClientAlone /\ [][NextClient]_vars

(* ------------- PhotoPrismInstanceManager ------------------------------ *)

\* the instance_config dicts a caller may pass for school s: the one of the
\* school's instance document, and one with another base_url
Configs(s) ==
    { [base_url |-> << "url", s >>], [base_url |-> << "url", s, "moved" >>] }

\* the schools with a cached adapter: the keys of self._instances
Cached == {s \in Schools : registry[s] # NoDoc}

\* len(self._instances): the entries of the dict that are not deleted
Live(entries) == Cardinality({i \in DOMAIN entries : entries[i] # 0})

\* a variant that clears the whole cache
RemoveEvery(reg, s) == [t \in Schools |-> NoDoc]

\* lines 232-233: if school_id in self._instances: del self._instances[school_id]
RemoveFrom(reg, s) == IF reg[s] # NoDoc THEN [reg EXCEPT ![s] = NoDoc] ELSE reg

\* lines 219-226: get_instance_for_school(school_id, instance_config)
GetInstance(s, config) ==
    /\ mgr.done < MaxRegistryCalls
    /\ registry' = GetInstanceForSchool(registry, s, config)
    /\ mgr' = [mgr EXCEPT
            !.entries = IF registry[s] = NoDoc THEN Append(@, s) ELSE @,
            !.built = IF registry[s] = NoDoc THEN @ + 1 ELSE @,
            !.evicted = @ \ {s},
            !.done = @ + 1,
            !.last = [ op |-> "get", school |-> s, config |-> config,
                       before |-> registry[s], client |-> registry'[s],
                       constructed |-> registry[s] = NoDoc,
                       evicted |-> s \in mgr.evicted ]]
    /\ UNCHANGED << photos, instances, photoprism_sync_events, calls,
                    obs, lastWriter, storeBudget, serverVars, batchVars, recon,
                    sessionVars, ops, stat, scenario >>

\* lines 228-233: remove_instance(school_id)
RemoveInstance(s) ==
    /\ mgr.done < MaxRegistryCalls
    /\ registry' = RemoveFrom(registry, s)
    /\ mgr' = [mgr EXCEPT
            !.entries = [i \in DOMAIN @ |-> IF @[i] = s THEN 0 ELSE @[i]],
            !.evicted = @ \cup {s},
            !.done = @ + 1,
            !.last = [NoManagerCall EXCEPT !.op = "remove", !.school = s,
                                           !.before = registry[s]]]
    /\ UNCHANGED << photos, instances, photoprism_sync_events, calls,
                    obs, lastWriter, storeBudget, serverVars, batchVars, recon,
                    sessionVars, ops, stat, scenario >>

\* line 54: an operation on a cached adapter has logged in
AdapterLogin(s) ==
    /\ registry[s] # NoDoc
    /\ registry[s].session_token = Null
    /\ registry' = [registry EXCEPT ![s].session_token = "token"]
    /\ UNCHANGED << photos, instances, photoprism_sync_events, calls,
                    obs, lastWriter, storeBudget, serverVars, batchVars, recon,
                    sessionVars, ops, mgr, stat, scenario >>

\* lines 170-177: health_check returns response.status == 200, and False
\* when an exception is caught
HealthCheck(answer) == IF answer = "200" THEN "True" ELSE "False"

\* what the probe of an adapter meets: status 200, another status, or an
\* exception (a network error, a timeout)
Answers == {"200", "503", "exception"}

\* the first entry after position pos that is not deleted, 0 when there is none
NextItem(entries, pos) ==
    IF \E i \in DOMAIN entries : i > pos /\ entries[i] # 0
        THEN CHOOSE i \in DOMAIN entries :
                /\ i > pos /\ entries[i] # 0
                /\ \A j \in DOMAIN entries : (j > pos /\ entries[j] # 0) => i <= j
        ELSE 0

\* line 240: the for statement asks the iterator of self._instances.items()
\* for the next item: it raises RuntimeError when the size of the dict
\* differs from the one it was created with or when it meets an item more
\* than it expects; at the end the loop is left and results is returned
\* (line 242); else the adapter of the item is probed (line 241)
ForNextItem(hc, entries) ==
    IF Live(entries) # hc.used
        THEN [hc EXCEPT !.pc = "raised"]
        ELSE LET i == NextItem(entries, hc.pos) IN
             IF i = 0 THEN [hc EXCEPT !.pc = "done"]
             ELSE IF hc.left = 0 THEN [hc EXCEPT !.pc = "raised"]
             ELSE [hc EXCEPT !.pc = "probing", !.pos = i, !.left = @ - 1,
                             !.school = entries[i]]

\* lines 239-241: health_check_all is called
HealthCheckAll ==
    /\ mgr.hc.pc = "idle"
    /\ mgr' = [mgr EXCEPT !.hc =
            ForNextItem([IdleHealth EXCEPT !.snapshot = Cached,
                                           !.used = Live(mgr.entries),
                                           !.left = Live(mgr.entries)],
                        mgr.entries)]
    /\ UNCHANGED << photos, instances, photoprism_sync_events, registry, calls,
                    obs, lastWriter, storeBudget, serverVars, batchVars, recon,
                    sessionVars, ops, stat, scenario >>

\* lines 240-242: the probe returns, its value is stored under the school of
\* the item, and the loop goes on
HealthProbeReturn(answer) ==
    /\ mgr.hc.pc = "probing"
    /\ mgr' = [mgr EXCEPT !.hc =
            ForNextItem([@ EXCEPT !.results[mgr.hc.school] = HealthCheck(answer)],
                        mgr.entries)]
    /\ UNCHANGED << photos, instances, photoprism_sync_events, registry, calls,
                    obs, lastWriter, storeBudget, serverVars, batchVars, recon,
                    sessionVars, ops, stat, scenario >>

\* the calls of the instance manager, and the logins of the adapters it caches
NextRegistry ==
    \/ \E s \in Schools : \E config \in Configs(s) : GetInstance(s, config)
    \/ \E s \in Schools : RemoveInstance(s)
    \/ \E s \in Schools : AdapterLogin(s)

SpecRegistry == InitAlone /\ [][NextRegistry]_vars

\* the config of the school's instance document
ConfigOf(s) == [base_url |-> instances[s].base_url]

\* health_check_all, and the calls of the instance manager that other
\* coroutines make while it is suspended in a probe
NextHealth ==
    \/ \E s \in Schools : GetInstance(s, ConfigOf(s))
    \/ \E s \in Schools : RemoveInstance(s)
    \/ HealthCheckAll
    \/ \E answer \in Answers : HealthProbeReturn(answer)

SpecHealth == InitAlone /\ [][NextHealth]_vars

(* ------------- SyncCoordinator.get_sync_status, GET /sync/status ------- *)

\* the photos of the collection whose status is counted
StatusPhotoIds == 1..NumStatusPhotos

\* the values the fields status (written by the coordinator) and sync_status
\* (written by the task of server.py) of a photo have together
StatusPairs ==
    << << "pending", "pending" >>, << "pending", "syncing" >>,
       << "synced", "synced" >>, << "failed", "failed" >> >>

\* the collections counted: all photos in school 1 or spread over the
\* schools, in each status (photos of one school are counted alike, so the
\* statuses are listed in one order only)
StatusSeeds ==
    { [p \in StatusPhotoIds |->
          [NewPhoto(p) EXCEPT !.school_id = IF spread THEN SchoolOf(p) ELSE 1,
                              !.status = StatusPairs[f[p]][1],
                              !.sync_status = StatusPairs[f[p]][2]]] :
        spread \in BOOLEAN,
        f \in { g \in [StatusPhotoIds -> DOMAIN StatusPairs] :
                    \A p, q \in StatusPhotoIds : p <= q => g[p] <= g[q] } }

\* a variant of the $match stage without the school
MatchAnySchool(s) == DOMAIN photos

\* {"$match": {"school_id": school_id}}
MatchSchool(s) == {p \in DOMAIN photos : photos[p].school_id = s}

\* {"$group": {"_id": "$status", "count": {"$sum": 1}}}: the count of one group
GroupCount(s, st) == Cardinality({p \in MatchSchool(s) : photos[p].status = st})

\* the groups of the aggregation: the status values that occur
Groups(s) == {photos[p].status : p \in MatchSchool(s)}

RECURSIVE SumCounts(_, _)
\* sum(item["count"] for item in status_counts)
SumCounts(s, groups) ==
    IF groups = {} THEN 0
    ELSE LET st == CHOOSE x \in groups : TRUE
         IN  GroupCount(s, st) + SumCounts(s, groups \ {st})

\* next((item["count"] for item in status_counts if item["_id"] == st), 0)
CountOf(s, st) == IF st \in Groups(s) THEN GroupCount(s, st) ELSE 0

\* lines 308-313: the counts taken from the aggregation
StatusCounts(s) ==
    [ total_photos   |-> SumCounts(s, Groups(s)),
      synced_photos  |-> CountOf(s, "synced"),
      pending_photos |-> CountOf(s, "pending"),
      failed_photos  |-> CountOf(s, "failed") ]

\* round((synced_photos / total_photos) * 100, 2) if total_photos > 0 else 0,
\* in hundredths of a percent: the nearest hundredth (no quotient of the
\* counts used here lies halfway between two hundredths)
SyncPercentage(synced, total) ==
    IF total > 0 THEN (2 * synced * 10000 + total) \div (2 * total) ELSE 0

\* lines 316-319: find_one({"event_status": SUCCESS}, sort=[("updated_at", -1)])
LastSyncEvent ==
    LET done == {i \in DOMAIN photoprism_sync_events :
                    photoprism_sync_events[i].event_status = "success"}
    IN  IF done = {} THEN 0
        ELSE CHOOSE i \in done :
                \A j \in done : photoprism_sync_events[j].updated_at
                                    <= photoprism_sync_events[i].updated_at

\* line 321: last_sync_event["updated_at"] if last_sync_event else None
LastSync ==
    IF LastSyncEvent = 0 THEN NoTime
    ELSE photoprism_sync_events[LastSyncEvent].updated_at

\* lines 324-326: count_documents({"event_status": {"$in": [PENDING, PROCESSING]}})
ActiveSyncJobs ==
    Cardinality({i \in DOMAIN photoprism_sync_events :
                    photoprism_sync_events[i].event_status \in {"pending", "processing"}})

\* lines 328-337: the dict returned
StatusResult(s, counts, last_sync, active) ==
    [ school_id        |-> s,
      total_photos     |-> counts.total_photos,
      synced_photos    |-> counts.synced_photos,
      pending_photos   |-> counts.pending_photos,
      failed_photos    |-> counts.failed_photos,
      last_sync        |-> last_sync,
      active_sync_jobs |-> active,
      sync_percentage  |-> SyncPercentage(counts.synced_photos, counts.total_photos),
      error            |-> Null ]

\* lines 339-344: except Exception: {"school_id": school_id, "error": str(e)}
StatusHandler(st, msg) ==
    [st EXCEPT !.pc = "done",
               !.result = [ school_id |-> st.school, total_photos |-> NoTime,
                            synced_photos |-> NoTime, pending_photos |-> NoTime,
                            failed_photos |-> NoTime, last_sync |-> NoTime,
                            active_sync_jobs |-> NoTime, sync_percentage |-> NoTime,
                            error |-> msg ]]

\* lines 301-313: get_sync_status is called and aggregates the photos of the
\* school. A second call asks for the school of the first, whose result is
\* kept
GetSyncStatus(s) ==
    /\ stat.endpoint.pc \in {"idle", "done"}
    /\ \/ stat.pc = "idle"
       \/ stat.pc = "done" /\ stat.prev = NoDoc /\ stat.school = s
    /\ LET st == [stat EXCEPT !.school = s,
                              !.prev = stat.result,
                              !.result = NoDoc]
       IN  \/ /\ StoreWorks
              /\ stat' = [st EXCEPT !.pc = "last_sync", !.counts = StatusCounts(s)]
           \/ /\ StoreRaises
              /\ stat' = StatusHandler(st, "store error")
    /\ UNCHANGED << photos, instances, photoprism_sync_events, registry, calls,
                    obs, lastWriter, serverVars, batchVars, recon,
                    sessionVars, ops, mgr, scenario >>

\* lines 316-321: the last successful event is read
StatusLastSync ==
    /\ stat.pc = "last_sync"
    /\ \/ /\ StoreWorks
          /\ stat' = [stat EXCEPT !.pc = "active", !.last_sync = LastSync]
       \/ /\ StoreRaises
          /\ stat' = StatusHandler(stat, "store error")
    /\ UNCHANGED << photos, instances, photoprism_sync_events, registry, calls,
                    obs, lastWriter, serverVars, batchVars, recon,
                    sessionVars, ops, mgr, scenario >>

\* lines 324-337: the active events are counted and the dict is returned
StatusActiveJobs ==
    /\ stat.pc = "active"
    /\ \/ /\ StoreWorks
          /\ stat' = [stat EXCEPT !.pc = "done",
                         !.result = StatusResult(stat.school, stat.counts,
                                                 stat.last_sync, ActiveSyncJobs)]
       \/ /\ StoreRaises
          /\ stat' = StatusHandler(stat, "store error")
    /\ UNCHANGED << photos, instances, photoprism_sync_events, registry, calls,
                    obs, lastWriter, serverVars, batchVars, recon,
                    sessionVars, ops, mgr, scenario >>

\* server.py line 732: count_documents({"school_id": school_id})
EndpointTotal(s) == Cardinality({p \in DOMAIN photos : photos[p].school_id = s})

\* server.py lines 733-735: count_documents({"school_id": ..., "sync_status": st})
EndpointCount(s, st) ==
    Cardinality({p \in DOMAIN photos :
                    photos[p].school_id = s /\ photos[p].sync_status = st})

\* server.py line 743: (synced_photos / total_photos * 100) if total_photos > 0
\* else 0: the quotient is not rounded, so it is kept as a fraction
EndpointPercentage(synced, total) ==
    IF total > 0 THEN [times |-> synced * 100, over |-> total]
                 ELSE [times |-> 0, over |-> 1]

\* server.py lines 722-732: the endpoint is called (the access check of lines
\* 728-729 is passed) and counts the photos of the school
EndpointGetSyncStatus(s) ==
    /\ stat.pc = "idle"
    /\ stat.endpoint.pc = "idle"
    /\ stat' = [stat EXCEPT !.endpoint =
            [@ EXCEPT !.pc = "synced", !.school_id = s,
                      !.total_photos = EndpointTotal(s)]]
    /\ UNCHANGED << photos, instances, photoprism_sync_events, registry, calls,
                    obs, lastWriter, storeBudget, serverVars, batchVars, recon,
                    sessionVars, ops, mgr, scenario >>

\* server.py lines 733-744: the three counts by sync_status, one read each,
\* and the dict returned
EndpointCountStatus ==
    /\ stat.endpoint.pc \in {"synced", "failed", "pending"}
    /\ LET e == stat.endpoint
           n == EndpointCount(e.school_id, e.pc)
       IN  stat' = [stat EXCEPT !.endpoint =
               IF e.pc = "synced" THEN [e EXCEPT !.pc = "failed", !.synced_photos = n]
               ELSE IF e.pc = "failed" THEN [e EXCEPT !.pc = "pending", !.failed_photos = n]
               ELSE [e EXCEPT !.pc = "done", !.pending_photos = n,
                              !.sync_percentage =
                                  EndpointPercentage(e.synced_photos, e.total_photos)]]
    /\ UNCHANGED << photos, instances, photoprism_sync_events, registry, calls,
                    obs, lastWriter, storeBudget, serverVars, batchVars, recon,
                    sessionVars, ops, mgr, scenario >>

NextStatus ==
    \/ \E s \in Schools : GetSyncStatus(s)
    \/ StatusLastSync
    \/ StatusActiveJobs
    \/ \E s \in Schools : EndpointGetSyncStatus(s)
    \/ EndpointCountStatus

InitStatus ==
    /\ photos \in StatusSeeds
    /\ photoprism_sync_events = << >>
    /\ storeBudget = 0
    /\ InitIdle

InitStatusAlone == InitStatus /\ Alone

SpecStatus == InitStatusAlone /\ [][NextStatus]_vars

\* a sync event with the time of its last update
TimedEvent(p, t) ==
    [ photo_id           |-> p,
      instance_id        |-> instances[photos[p].school_id].id,
      event_type         |-> "upload",
      event_status       |-> "pending",
      processing_time_ms |-> Null,
      error_details      |-> Null,
      updated_at         |-> t ]

\* the statuses an event moves to (lines 78-81, 102-111, 131-141)
EventMoves ==
    { << "pending", "processing" >>, << "processing", "processing" >>,
      << "processing", "success" >>, << "processing", "failed" >> }

\* the school an event belongs to: the one of its photo
EventSchool(ev) == photos[ev.photo_id].school_id

\* the schools whose events were written while a status call was counted
Touched(s) == IF stat.pc = "idle" THEN stat.touched ELSE stat.touched \cup {s}

\* lines 53-60: a sync of photo p inserts its event
EventInsert(p) ==
    /\ now < MaxEventWrites
    /\ now' = now + 1
    /\ photoprism_sync_events' =
            InsertEvent(photoprism_sync_events, TimedEvent(p, now + 1))
    /\ stat' = [stat EXCEPT !.touched = Touched(photos[p].school_id)]
    /\ UNCHANGED << photos, instances, registry, calls, obs, lastWriter,
                    storeBudget, serverVars, batchVars, recon, adapter, ens,
                    ops, mgr, scenario >>

\* lines 78-81, 102-111, 131-141: a sync updates its event
EventUpdate(i, st) ==
    /\ now < MaxEventWrites
    /\ i \in DOMAIN photoprism_sync_events
    /\ << photoprism_sync_events[i].event_status, st >> \in EventMoves
    /\ now' = now + 1
    /\ photoprism_sync_events' =
            [photoprism_sync_events EXCEPT ![i].event_status = st,
                                           ![i].updated_at = now + 1]
    /\ stat' = [stat EXCEPT !.touched = Touched(EventSchool(photoprism_sync_events[i]))]
    /\ UNCHANGED << photos, instances, registry, calls, obs, lastWriter,
                    storeBudget, serverVars, batchVars, recon, adapter, ens,
                    ops, mgr, scenario >>

\* get_sync_status while the syncs of all schools write their events
NextStatusEvents ==
    \/ \E s \in Schools : GetSyncStatus(s)
    \/ StatusLastSync
    \/ StatusActiveJobs
    \/ \E p \in PhotoIds : EventInsert(p)
    \/ \E i \in 1..MaxEventWrites, st \in {"processing", "success", "failed"} :
          EventUpdate(i, st)

SpecStatusEvents == InitAlone /\ [][NextStatusEvents]_vars

(* ------------- every operation, under the faults of PhotoPrism -------- *)

\* the components, one of which a run exercises
Scenarios == {"batch", "reconcile", "client", "health", "status"}

\* batch_sync_photos and retry_failed_syncs (with the syncs they start),
\* reconcile_school_photos, the operations of an adapter, the health checks
\* and get_sync_status, each from its own start, against a PhotoPrism whose
\* answers may be failures
InitRemoteFaults ==
    /\ scenario \in Scenarios
    /\ scenario = "batch" => InitBatch
    /\ scenario = "reconcile" => InitRecon
    /\ scenario = "client" => InitClient
    /\ scenario = "health" => Init
    /\ scenario = "status" => InitStatus

NextRemoteFaults ==
    \/ scenario = "batch" /\ NextBatch
    \/ scenario = "reconcile" /\ NextRecon
    \/ scenario = "client" /\ NextClient
    \/ scenario = "health" /\ NextHealth
    \/ scenario = "status" /\ NextStatus

SpecRemoteFaults == InitRemoteFaults /\ [][NextRemoteFaults]_vars

(* ------------- syncs, a retry and a reconciliation side by side -------- *)

\* the call that another coroutine makes while a retry or a reconciliation
\* runs; the tasks of a batch are the calls before it
Beside == NumCalls

\* a sync_photo_to_photoprism call made while the other operations run
SyncPhotoBeside(id) ==
    /\ BeginSync(Beside, id)
    /\ UNCHANGED extVars

\* a response 200 of POST /api/v1/upload/{filename} whose JSON object carries
\* no "uuid": it is true for "if result" (line 88) and result.get("uuid") is
\* None (line 95)
BareResult(c) == [ uuid |-> NoId, filename |-> FilenameOf(calls[c].photo_id) ]

\* lines 84-88: adapter.upload_photo returns such a result
UploadReturnsBare(c) ==
    /\ calls[c].pc = "uploading"
    /\ calls' = [calls EXCEPT ![c] = [@ EXCEPT !.pc = "write_synced",
                                               !.result = BareResult(c)]]
    /\ obs' = [obs EXCEPT ![c].returned = @ + 1, ![c].accepted = @ + 1,
                          ![c].acceptedAt = obs[c].started]
    /\ UNCHANGED << photos, instances, photoprism_sync_events, registry,
                    lastWriter, storeBudget, serverVars >>
    /\ UNCHANGED extVars

\* a photo whose first sync was accepted and whose latest sync failed: FAILED
\* (line 125 leaves the uuid), with the uuid of the accepted upload
SeededResyncFailed(p, s) == FailedFields(SeededSynced(p, s))

\* the photo collection the operations meet: in a school with an ACTIVE
\* instance, a photo that failed after an accepted upload next to synced ones
ConcurrentSeeds ==
    { [p \in PhotoIds |-> IF p = 1 THEN SeededResyncFailed(p, 1) ELSE SeededSynced(p, 1)] }

\* the schools whose instance is ACTIVE: for the others, a retry's syncs and
\* a reconciliation return at once
ActiveSchools == {s \in Schools : SeededStatus(s) = "active"}

\* the answers of GET /api/v1/photos of a PhotoPrism that holds every photo
\* synced so far, or has lost the first one
DriftLists ==
    { [i \in DOMAIN SetToSeq(K) |-> RemoteItem(SetToSeq(K)[i])] :
        K \in {PhotoIds, PhotoIds \ {1}} }

InitConcurrent ==
    /\ photos \in ConcurrentSeeds
    /\ photoprism_sync_events = << >>
    /\ InitIdle
    /\ storeBudget = 0

InitConcurrentAlone == InitConcurrent /\ Alone

\* the steps of every sync_photo_to_photoprism call that has started
SyncSteps ==
    \/ \E c \in Calls : FindInstance(c)
    \/ \E c \in Calls : CreateEvent(c)
    \/ \E c \in Calls : MarkProcessing(c)
    \/ \E c \in Calls : UploadReturn(c)
    \/ \E c \in Calls : UploadReturnsBare(c)
    \/ \E c \in Calls : Sleep(c)
    \/ \E c \in Calls : WriteSynced(c)
    \/ \E c \in Calls : EventSuccess(c)
    \/ \E c \in Calls : FailPhoto(c)
    \/ \E c \in Calls : FailEvent(c)
    \/ \E c \in Calls : ExcFailPhoto(c)
    \/ \E c \in Calls : ExcFailEvent(c)

\* a sync, a retry_failed_syncs (limited so that its batch leaves a call to the
\* sync beside it) and a reconcile_school_photos that repairs, interleaved at
\* their awaits
NextConcurrent ==
    \/ \E id \in PhotoIds : SyncPhotoBeside(id)
    \/ \E s \in ActiveSchools, limit \in 1..(NumCalls - 1) : RetryFailedSyncs(s, limit)
    \/ RetryReset
    \/ \E i \in Calls : BatchAcquire(i)
    \/ BatchGather
    \/ \E s \in ActiveSchools : ReconcileSchoolPhotos(s, FALSE)
    \/ ReconFindInstance
    \/ ReconSearchAmong(DriftLists)
    \/ ReconReset
    \/ SyncSteps

SpecConcurrent == InitConcurrentAlone /\ [][NextConcurrent]_vars

(* ------------- syncs of a school whose instance is moved --------------- *)

\* the base_url of a school's deployment after it has been moved
MovedUrl(s) == << "url", s, "moved" >>

\* the administration of the instances rewrites the configuration of the
\* school's instance in db.photoprism_instances, the collection read at lines
\* 41-44, and may call remove_instance for the school (lines 228-233)
MoveInstance(s, evict) ==
    /\ instances[s].base_url # MovedUrl(s)
    /\ instances' = [instances EXCEPT ![s].base_url = MovedUrl(s)]
    /\ registry' = IF evict THEN RemoveFrom(registry, s) ELSE registry
    /\ UNCHANGED << photos, photoprism_sync_events, calls, obs, lastWriter,
                    storeBudget, serverVars >>
    /\ UNCHANGED extVars

NextReconfigure ==
    \/ Next
    \/ \E s \in Schools, evict \in BOOLEAN : MoveInstance(s, evict)

SpecReconfigure == InitAlone /\ [][NextReconfigure]_vars

(* ------------------------------ claims -------------------------------- *)

Event(c) == photoprism_sync_events[calls[c].event_id]

Done(c) == calls[c].pc = "done"

\* the call went through the retry loop and no upload returned a result
AllAttemptsFailed(c) ==
    /\ Done(c)
    /\ obs[c].attempts >= 1
    /\ obs[c].accepted = 0

\* the edges of the state machine of section 4.3
StatusEdges ==
    { <<"pending", "syncing">>, <<"syncing", "synced">>, <<"syncing", "failed">>,
      <<"failed", "pending">>, <<"synced", "pending">> }

\* C1: a photo's sync status changes only along PENDING->SYNCING,
\* SYNCING->SYNCED, SYNCING->FAILED, FAILED->PENDING and SYNCED->PENDING.
C1_StatusMovesAlongEdges ==
    [][\A p \in PhotoIds :
          photos'[p].status # photos[p].status
              => <<photos[p].status, photos'[p].status>> \in StatusEdges]_vars

\* C2: a call makes at most 3 upload attempts, at most one of them is in
\* flight at a time (the next starts only after the previous has returned or
\* raised), and no upload is started after one has returned a result.
C2_AtMostThreeSequentialAttempts ==
    \A c \in Calls :
        /\ obs[c].started <= 3
        /\ obs[c].started - obs[c].returned \in {0, 1}
        /\ (obs[c].started - obs[c].returned = 1) <=> (calls[c].pc = "uploading")
        /\ obs[c].accepted <= 1
        /\ obs[c].accepted >= 1 => obs[c].acceptedAt = obs[c].started

\* C3 as stated: when every attempt fails the delays observed are [5, 15, 60].
C3_DelaysAreFiveFifteenSixty ==
    \A c \in Calls : AllAttemptsFailed(c) => obs[c].delays = <<5, 15, 60>>

\* C3 as amended: when every attempt fails the delays observed are [5, 15]:
\* with 3 attempts there are two waits and the schedule's 60 is never used.
C3_DelaysAreFiveFifteen ==
    \A c \in Calls : AllAttemptsFailed(c) => obs[c].delays = <<5, 15>>

C3_Witness ==
    \E c \in Calls : AllAttemptsFailed(c) /\ obs[c].started = 3 /\ Len(obs[c].delays) = 2

C4_Schedule == <<5, 15, 60>>

\* C4: a delay occurs only between two consecutive attempts (none before the
\* first attempt, none after the last), and the delay after failed attempt k
\* is schedule[min(k-1, len-1)], whether the attempt returned None or raised.
C4_DelaysOnlyBetweenAttempts ==
    \A c \in Calls :
        LET d == obs[c].delays
            n == obs[c].attempts
        IN  /\ Len(obs[c].sleptAfter) = Len(d)
            /\ \A i \in 1..Len(d) :
                  /\ obs[c].sleptAfter[i] = i
                  /\ d[i] = C4_Schedule[Min(i - 1, Len(C4_Schedule) - 1) + 1]
            /\ n = 0 => d = << >>
            /\ n >= 1 => Len(d) \in {n - 1, n}
            /\ (n >= 1 /\ Len(d) = n) => calls[c].pc = "mark_processing"

C4_Witness ==
    \E c \in Calls :
        /\ Done(c)
        /\ obs[c].attempts = 3
        /\ Len(obs[c].delays) = 2
        /\ calls[c].error_msg = "client error"

\* C5: a call that returns true has increased the photo's sync_version by
\* exactly 1 over the version it read, one that returns false has left it.
C5_VersionBumpedOnSuccess ==
    \A c \in Calls :
        (Done(c) /\ calls[c].photo # NoDoc) =>
            photos[calls[c].photo_id].sync_version =
                calls[c].photo.sync_version + (IF calls[c].ret THEN 1 ELSE 0)

\* C6: a photo's sync_version never decreases, also when several syncs of
\* the same photo overlap.
C6_VersionNeverDecreases ==
    [][\A p \in PhotoIds : photos'[p].sync_version >= photos[p].sync_version]_vars

C8_ResultMeansSynced ==
    \A c \in Calls :
        (Done(c) /\ obs[c].accepted >= 1) =>
            /\ calls[c].ret
            /\ Event(c).event_status = "success"
            /\ Event(c).processing_time_ms # Null
            /\ lastWriter[calls[c].photo_id] = c =>
                  /\ photos[calls[c].photo_id].status = "synced"
                  /\ photos[calls[c].photo_id].photoprism_uuid
                        = <<"uuid", c, obs[c].acceptedAt - 1>>
                  /\ photos[calls[c].photo_id].photoprism_filename
                        = FilenameOf(calls[c].photo_id)

\* C9: when all 3 attempts of a call fail, the call returns false; on return
\* its Sync Event is FAILED with error details and the photo, unless another
\* call has written it since, is FAILED with the error appended to sync_errors.
C9_ExhaustionRecordsTheError ==
    \A c \in Calls :
        (AllAttemptsFailed(c) /\ obs[c].started = 3) =>
            /\ ~calls[c].ret
            /\ Event(c).event_status = "failed"
            /\ Event(c).error_details # Null
            /\ lastWriter[calls[c].photo_id] = c =>
                  /\ photos[calls[c].photo_id].status = "failed"
                  /\ photos[calls[c].photo_id].sync_errors # << >>

\* the call was given an unknown id or a photo of a school without an
\* ACTIVE instance
FailsFast(c) ==
    /\ calls[c].pc # "idle"
    /\ \/ calls[c].photo_id \notin PhotoIds
       \/ instances[SchoolOf(calls[c].photo_id)].status # "active"

\* C10: a call with an unknown photo id, or for a photo whose school has no
\* ACTIVE instance, returns false and creates no Sync Event, makes no upload
\* attempt, waits for no delay and writes no photo.
C10_FailFastTouchesNothing ==
    \A c \in Calls :
        FailsFast(c) =>
            /\ calls[c].pc \in {"find_instance", "done"}
            /\ Done(c) => ~calls[c].ret
            /\ calls[c].event_id = 0
            /\ obs[c] = NoObs
            /\ \A i \in DOMAIN photoprism_sync_events :
                  photoprism_sync_events[i].photo_id # calls[c].photo_id
            /\ \A p \in PhotoIds : lastWriter[p] # c

C10_Witness ==
    \E c, d \in Calls :
        /\ Done(c) /\ calls[c].photo_id = UnknownId
        /\ Done(d) /\ calls[d].photo_id \in PhotoIds
        /\ instances[SchoolOf(calls[d].photo_id)].status # "active"

\* the sync_photo_to_photoprism executions that have started and not returned
Running == {c \in Calls : calls[c].pc \notin {"idle", "done"}}

\* C11: while a batch_sync_photos call runs, the number of its syncs that
\* have started and not yet returned is at most max_concurrent.
C11_AtMostMaxConcurrent ==
    batch.pc # "idle" => Cardinality(Running) <= batch.max_concurrent

C11_Witness ==
    /\ batch.pc = "gathering"
    /\ batch.max_concurrent < Len(batch.photo_ids)
    /\ Cardinality(Running) = batch.max_concurrent
    /\ \E i \in DOMAIN batch.photo_ids : i \notin batch.acquired
    /\ \E i \in batch.acquired : calls[i].pc = "uploading"

\* the last task of the batch that was given photo id
LastTaskOf(id) ==
    CHOOSE i \in DOMAIN batch.photo_ids :
        /\ batch.photo_ids[i] = id
        /\ \A j \in DOMAIN batch.photo_ids : batch.photo_ids[j] = id => j <= i

\* C12: the map batch_sync_photos returns has one entry per input photo id,
\* the entry is the result of that photo's sync, and a sync that fails, by
\* an exception too, leaves the entries and the outcomes of the others as
\* they are: a photo whose sync returned True is SYNCED.
C12_OneEntryPerInputId ==
    batch.pc = "done" =>
        /\ DOMAIN batch.ret = {batch.photo_ids[i] : i \in DOMAIN batch.photo_ids}
        /\ \A id \in DOMAIN batch.ret :
              /\ batch.ret[id] = calls[LastTaskOf(id)].ret
              /\ (batch.ret[id] /\ lastWriter[id] = LastTaskOf(id))
                    => photos[id].status = "synced"

C12_Witness ==
    /\ batch.pc = "done"
    /\ \E i, j \in DOMAIN batch.photo_ids :
          /\ batch.photo_ids[i] # batch.photo_ids[j]
          /\ calls[i].error_msg = "client error"
          /\ ~batch.ret[batch.photo_ids[i]]
          /\ batch.ret[batch.photo_ids[j]]

\* the photos a retry_failed_syncs call selected
Selected == {retry.photo_ids[i] : i \in DOMAIN retry.photo_ids}

\* C13: retry_failed_syncs(school, limit) selects at most limit photos, all
\* of the school and all FAILED, sets exactly those to PENDING, runs the
\* batch on exactly that list and returns that list whatever the syncs'
\* outcomes; every other photo stays as the call found it.
C13_RetriesExactlyTheSelected ==
    retry.pc # "idle" =>
        /\ Len(retry.photo_ids) <= retry.limit
        /\ Cardinality(Selected) = Len(retry.photo_ids)
        /\ \A p \in Selected :
              /\ retry.before[p].school_id = retry.school_id
              /\ retry.before[p].status = "failed"
        /\ \A p \in PhotoIds \ Selected : photos[p] = retry.before[p]
        /\ (retry.pc = "batching" /\ batch.acquired = {}) =>
              \A p \in Selected : photos[p] = PendingFields(retry.before[p])
        /\ retry.pc = "batching" =>
              /\ batch.pc = "gathering"
              /\ batch.photo_ids = retry.photo_ids
        /\ \A c \in Calls : calls[c].pc # "idle" => calls[c].photo_id \in Selected
        /\ retry.pc = "done" =>
              /\ retry.ret = retry.photo_ids
              /\ {calls[c].photo_id : c \in {d \in Calls : calls[d].pc = "done"}} = Selected
              /\ \A c \in Calls : calls[c].pc \in {"idle", "done"}

C13_Witness ==
    /\ retry.pc = "done"
    /\ Len(retry.ret) >= 1
    /\ Len(retry.ret) = retry.limit
    /\ Cardinality({p \in PhotoIds : retry.before[p].school_id = retry.school_id
                                      /\ retry.before[p].status = "failed"}) > retry.limit
    /\ \E p \in Selected : photos[p].status = "failed"

\* the local store as the reconcile call found it
Before == recon.before[1]

\* the school's photos whose uuid is set and is not the uuid of any item of
\* the list PhotoPrism returned
OrphanedLocal ==
    {p \in PhotoIds :
        /\ Before[p].school_id = recon.school_id
        /\ Before[p].photoprism_uuid # NoId
        /\ \A i \in DOMAIN recon.photoprism_photos.items :
              recon.photoprism_photos.items[i].uuid # Before[p].photoprism_uuid}

\* the call is over and PhotoPrism had answered its search with a list
ReconciledAgainstAList ==
    /\ recon.pc = "done"
    /\ recon.error = Null
    /\ ~recon.photoprism_photos.none

\* C14: a reconcile with dry_run = True writes nothing to the local store:
\* every photo and every Sync Event is as the call found it, whatever the
\* local and the remote orphans.
C14_DryRunWritesNothing ==
    (recon.pc # "idle" /\ recon.dry_run) =>
        <<photos, photoprism_sync_events>> = recon.before

C14_Witness ==
    /\ recon.pc = "done"
    /\ recon.dry_run
    /\ Len(recon.orphaned_yabook) >= 2
    /\ Len(recon.orphaned_photoprism) >= 1

\* C15: a reconcile with dry_run = False writes exactly the orphaned local
\* photos: each of them ends PENDING with no uuid and no remote file name and
\* with one action in the report; every other photo is as the call found it.
C15_RepairsExactlyTheOrphans ==
    (ReconciledAgainstAList /\ ~recon.dry_run) =>
        /\ \A p \in OrphanedLocal :
              /\ photos[p] = ResetFields(Before[p])
              /\ Cardinality({i \in DOMAIN recon.actions_taken :
                                 recon.actions_taken[i] = p}) = 1
        /\ \A p \in PhotoIds \ OrphanedLocal : photos[p] = Before[p]
        /\ Len(recon.actions_taken) = Cardinality(OrphanedLocal)

\* C16: for every local photo set and every list PhotoPrism returns, the
\* empty list included, orphaned_yabook is exactly the school's photos whose
\* uuid is set and is not the uuid of a listed item.
C16_OrphanedLocalIsExact ==
    ReconciledAgainstAList =>
        /\ {recon.orphaned_yabook[i].id : i \in DOMAIN recon.orphaned_yabook}
              = OrphanedLocal
        /\ Len(recon.orphaned_yabook) = Cardinality(OrphanedLocal)

\* the requests that change nothing PhotoPrism stores about photos
ReadOnlyRequests == {"POST /api/v1/session", "GET /api/v1/photos"}

\* C17: orphaned_photoprism is exactly the listed items whose uuid no local
\* photo of the school carries, and reconcile sends PhotoPrism no request
\* that changes an item, with dry_run True or False.
C17_OrphanedRemoteIsExactAndReadOnly ==
    /\ \A i \in DOMAIN recon.requests : recon.requests[i] \in ReadOnlyRequests
    /\ (recon.pc = "done" /\ recon.error = Null) =>
          LET items == recon.photoprism_photos.items
              mine == {Before[p].photoprism_uuid :
                          p \in {q \in PhotoIds : Before[q].school_id = recon.school_id}}
              kept == {i \in DOMAIN items : items[i].uuid \notin mine}
          IN  /\ Len(recon.orphaned_photoprism) = Cardinality(kept)
              /\ {recon.orphaned_photoprism[i] : i \in DOMAIN recon.orphaned_photoprism}
                    = {items[i] : i \in kept}

C17_Witness ==
    /\ recon.pc = "done"
    /\ ~recon.dry_run
    /\ Len(recon.orphaned_photoprism) >= 1
    /\ Len(recon.orphaned_photoprism) < Len(recon.photoprism_photos.items)
    /\ Len(recon.actions_taken) >= 1

\* C18: when the school has no ACTIVE instance, reconcile returns a report
\* with an error, sends PhotoPrism nothing and changes no local record, with
\* dry_run True or False.
C18_NoInstanceOnlyAnError ==
    (recon.pc # "idle" /\ instances[recon.school_id].status # "active") =>
        /\ recon.pc \in {"find_instance", "done"}
        /\ recon.pc = "done" => recon.error # Null
        /\ recon.requests = << >>
        /\ registry[recon.school_id] = NoDoc
        /\ <<photos, photoprism_sync_events>> = recon.before
        /\ recon.orphaned_yabook = << >> /\ recon.actions_taken = << >>

C18_Witness ==
    /\ recon.pc = "done"
    /\ ~recon.dry_run
    /\ instances[recon.school_id].status # "active"
    /\ \E p \in PhotoIds : /\ photos[p].school_id = recon.school_id
                           /\ photos[p].photoprism_uuid # NoId

\* C19: _ensure_session returns True without a request when a token is
\* cached and has not crossed the expiry margin; in every other case it
\* calls _authenticate exactly once and returns what _authenticate returned.
C19_ReuseOrAuthenticateOnce ==
    \A k \in Clients :
        ens[k].pc # "idle" =>
            IF ens[k].age # NoTime /\ ens[k].age < session_lifetime - expiry_margin
                THEN ens[k].pc = "done" /\ ens[k].ret /\ ens[k].requests = 0
                ELSE /\ ens[k].requests = 1
                     /\ ens[k].pc = "done" => ens[k].ret = ens[k].auth_ok

C19_Witness ==
    \E k, j \in Clients :
        /\ ens[k].pc = "done" /\ ens[k].ret /\ ens[k].requests = 0
        /\ ens[j].pc = "done" /\ ~ens[j].ret /\ ens[j].requests = 1
        /\ ens[j].age >= 45

\* C20 as stated: a token issued at t is reused at every time before t + 50
\* minutes and at no time from t + 50 minutes on.
C20_ReusedUntilFifty ==
    \A k \in Clients :
        (ens[k].pc # "idle" /\ ens[k].age # NoTime) =>
            (ens[k].requests = 0 <=> ens[k].age < 50)

\* C20 as amended: a token issued at t is reused at every time before t + 45
\* minutes and at no time from t + 45 minutes on: the expiry is t + 50 and
\* _ensure_session keeps a margin of 5 minutes before it.
C20_ReusedUntilFortyFive ==
    \A k \in Clients :
        (ens[k].pc # "idle" /\ ens[k].age # NoTime) =>
            (ens[k].requests = 0 <=> ens[k].age < 45)

C20_Witness ==
    \E k, j \in Clients :
        /\ ens[k].age = 44 /\ ens[k].requests = 0 /\ ens[k].pc = "done"
        /\ ens[j].age = 45 /\ ens[j].requests = 1

\* the events of photo p, in the order of their creation
EventsOf(p) ==
    {i \in DOMAIN photoprism_sync_events : photoprism_sync_events[i].photo_id = p}

\* the event created last for photo p
LastEventOf(p) ==
    photoprism_sync_events[CHOOSE i \in EventsOf(p) : \A j \in EventsOf(p) : j <= i]

\* a sync of photo p has started and not returned
InFlight(p) == \E c \in Calls : calls[c].photo_id = p /\ calls[c].pc \notin {"idle", "done"}

\* C27: when no sync of a photo is in flight, the photo's stored status is
\* the one of the event created last for it (SYNCED for SUCCESS, FAILED for
\* FAILED), also after concurrent syncs of the photo have completed in any
\* order.
C27_StatusFollowsLastEvent ==
    \A p \in PhotoIds :
        (~InFlight(p) /\ EventsOf(p) # {}) =>
            /\ LastEventOf(p).event_status = "success" => photos[p].status = "synced"
            /\ LastEventOf(p).event_status = "failed" => photos[p].status = "failed"

\* the states of the final failure, after a None result and after an exception
FinalFailure == {"fail_photo", "fail_event", "exc_fail_photo", "exc_fail_event"}

\* C29: an exception raised during an upload attempt acts on the retry loop
\* as a None result does: it uses up one of the 3 attempts, is followed by
\* the next attempt while attempts remain, and on the last attempt leads to
\* the FAILED outcome; it never ends the call before the attempts are used up.
C29_ExceptionCountsAsFailedAttempt ==
    \A c \in Calls :
        /\ calls[c].pc \in FinalFailure => obs[c].started = 3 /\ obs[c].returned = 3
        /\ calls[c].pc = "sleep" => obs[c].started \in {1, 2}
        /\ calls[c].error_msg = "client error" =>
              /\ calls[c].pc \in {"exc_fail_photo", "exc_fail_event", "done"}
              /\ obs[c].started = 3
              /\ Len(obs[c].delays) = 2
        /\ (Done(c) /\ obs[c].attempts >= 1 /\ obs[c].accepted = 0) =>
              /\ obs[c].started = 3
              /\ ~calls[c].ret
              /\ Event(c).event_status = "failed"
              /\ Event(c).error_details # Null
              /\ lastWriter[calls[c].photo_id] = c =>
                    photos[calls[c].photo_id].status = "failed"

C29_Witness ==
    \E c, d \in Calls :
        /\ Done(c) /\ calls[c].error_msg = "client error"
        /\ Event(c).error_details = "client error"
        /\ Done(d) /\ obs[d].started = 3
        /\ Event(d).error_details = "Upload failed after all retry attempts"

\* C21: upload_photo, search_photos, get_photo_metadata and trigger_indexing
\* call _ensure_session before anything else, and when it returns False they
\* return their failure value (None, False for trigger_indexing) without
\* sending a request of their own.
C21_NoRequestWithoutSession ==
    \A k \in Clients :
        /\ ops[k].ensured = "False" =>
              /\ ops[k].pc = "done"
              /\ ops[k].requests = << >>
              /\ ops[k].ret = IF ops[k].kind = "trigger_indexing" THEN "False" ELSE "None"
        /\ ops[k].requests # << >> => ops[k].ensured = "True"
        /\ ops[k].pc = "authenticating" => ops[k].requests = << >>

C21_Witness ==
    \E k, j \in Clients :
        /\ ops[k].kind = "trigger_indexing" /\ ops[k].ensured = "False"
        /\ ops[k].ret = "False" /\ ops[k].logins = 1
        /\ ops[j].kind = "upload_photo" /\ ops[j].ensured = "False"
        /\ ops[j].ret = "None" /\ ops[j].logins = 1

\* every operation sent a login, and has returned
AllLoggedIn == \A k \in Clients : ops[k].logins = 1 /\ ops[k].pc = "done"

\* C30: when concurrent operations on one adapter all find the token missing
\* or expired and each logs in, every operation whose _ensure_session
\* returned True sends its request with a token a login issued, never with
\* None, and after all of them have returned the adapter holds a token and
\* its expiry.
C30_ConcurrentLoginsKeepAToken ==
    /\ \A k \in Clients :
          (ops[k].logins = 1 /\ ops[k].ensured = "True") =>
              /\ ops[k].requests # << >>
              /\ \E j \in Clients : ops[k].requests[1] = << "token", j >>
    /\ (AllLoggedIn /\ \E k \in Clients : ops[k].ensured = "True") =>
          /\ adapter.session_token # NoId
          /\ adapter.session_expires # NoTime

\* C22: get_instance_for_school returns the cached adapter when the school
\* has one (the adapter as it is, nothing constructed) and otherwise
\* constructs one from the config it is given and caches it; construction
\* does not log in, so a new adapter holds no session token.
C22_CachedOrConstructed ==
    mgr.last.op = "get" =>
        /\ mgr.last.before # NoDoc =>
              /\ mgr.last.client = mgr.last.before
              /\ ~mgr.last.constructed
        /\ mgr.last.before = NoDoc =>
              /\ mgr.last.constructed
              /\ mgr.last.client.base_url = mgr.last.config.base_url
              /\ mgr.last.client.session_token = "null"
        /\ mgr.built = Live(mgr.entries) + Cardinality({i \in DOMAIN mgr.entries : mgr.entries[i] = 0})

C22_Witness ==
    /\ mgr.last.op = "get"
    /\ ~mgr.last.constructed
    /\ mgr.last.before.session_token = "token"
    /\ mgr.last.before.base_url # mgr.last.config.base_url
    /\ mgr.last.client = registry[mgr.last.school]
    /\ \E s \in Schools : registry[s] # NoDoc /\ registry[s].session_token = "null"

\* the step is the call numbered mgr.done + 1 of the instance manager
ManagerCall(op, s) ==
    /\ mgr'.done = mgr.done + 1
    /\ mgr'.last.op = op
    /\ mgr'.last.school = s

\* C23: remove_instance removes the adapter cached for the school and leaves
\* the adapters of every other school as they are; without a cached adapter
\* it changes nothing; the next get_instance_for_school for the school
\* constructs an adapter from the config passed to that call.
C23_RemoveEvictsOneSchool ==
    [][ \A s \in Schools :
          /\ ManagerCall("remove", s) =>
                /\ registry'[s] = NoDoc
                /\ \A t \in Schools \ {s} : registry'[t] = registry[t]
                /\ registry[s] = NoDoc =>
                      (registry' = registry /\ mgr'.entries = mgr.entries)
          /\ (ManagerCall("get", s) /\ s \in mgr.evicted) =>
                /\ registry'[s] = [ base_url |-> mgr'.last.config.base_url,
                                    session_token |-> "null" ]
                /\ mgr'.last.client = registry'[s]
                /\ mgr'.built = mgr.built + 1 ]_vars

C23_Witness ==
    /\ mgr.last.op = "get"
    /\ mgr.last.evicted
    /\ mgr.last.constructed
    /\ mgr.built >= 3
    /\ mgr.last.client.base_url = << "url", mgr.last.school, "moved" >>
    /\ \E t \in Schools \ {mgr.last.school} :
          registry[t] # NoDoc /\ registry[t].session_token = "token"

\* C24: health_check_all returns a dict with one boolean entry for every
\* adapter cached when it was called, each the value of that adapter's own
\* health_check; a probe that fails or raises changes no other entry.
C24_OneEntryPerCachedClient ==
    /\ mgr.hc.pc # "raised"
    /\ mgr.hc.pc = "done" =>
          \A s \in Schools :
              /\ s \in mgr.hc.snapshot <=> mgr.hc.results[s] # "null"
              /\ mgr.hc.results[s] \in {"null", "True", "False"}

\* the photos of school s, and those of them with a status
OfSchool(s) == {p \in DOMAIN photos : photos[p].school_id = s}

WithStatus(s, field, st) == {p \in OfSchool(s) : photos[p][field] = st}

\* the counts of a status dict are those of the school's photos by the field
\* given, and their sum does not exceed the total
CountsAreRight(r, field) ==
    /\ r.total_photos = Cardinality(OfSchool(r.school_id))
    /\ r.synced_photos = Cardinality(WithStatus(r.school_id, field, "synced"))
    /\ r.pending_photos = Cardinality(WithStatus(r.school_id, field, "pending"))
    /\ r.failed_photos = Cardinality(WithStatus(r.school_id, field, "failed"))
    /\ r.synced_photos + r.pending_photos + r.failed_photos <= r.total_photos

\* the endpoint's percentage is the quotient synced / total * 100
EndpointIsRight ==
    stat.endpoint.pc = "done" =>
        /\ CountsAreRight(stat.endpoint, "sync_status")
        /\ stat.endpoint.total_photos > 0 =>
              /\ stat.endpoint.sync_percentage.times = stat.endpoint.synced_photos * 100
              /\ stat.endpoint.sync_percentage.over = stat.endpoint.total_photos
        /\ stat.endpoint.total_photos = 0 => stat.endpoint.sync_percentage.times = 0

\* C25 as stated: get_sync_status reports the number of the school's photos
\* as total, its synced, pending and failed counts with a sum of at most the
\* total, and a percentage that equals synced / total * 100, 0 for no photos.
C25_PercentageIsTheQuotient ==
    /\ stat.result # NoDoc =>
          /\ CountsAreRight(stat.result, "status")
          /\ stat.result.sync_percentage * stat.result.total_photos
                = stat.result.synced_photos * 10000
    /\ EndpointIsRight

\* C25: get_sync_status reports the number of the school's photos as total,
\* its synced, pending and failed counts with a sum of at most the total,
\* and as percentage synced / total * 100 rounded to two decimals (the
\* endpoint of server.py does not round), 0 for no photos.
C25_PercentageIsRounded ==
    /\ stat.result # NoDoc =>
          /\ CountsAreRight(stat.result, "status")
          /\ stat.result.total_photos = 0 => stat.result.sync_percentage = 0
          /\ 2 * (stat.result.sync_percentage * stat.result.total_photos
                    - stat.result.synced_photos * 10000) <= stat.result.total_photos
          /\ 2 * (stat.result.synced_photos * 10000
                    - stat.result.sync_percentage * stat.result.total_photos)
                <= stat.result.total_photos
    /\ EndpointIsRight

C25_Witness ==
    /\ stat.result # NoDoc
    /\ stat.result.total_photos = 3
    /\ stat.result.synced_photos = 1
    /\ stat.result.sync_percentage = 3333
    /\ stat.endpoint.pc = "done"
    /\ stat.endpoint.school_id = stat.result.school_id
    /\ stat.endpoint.synced_photos + stat.endpoint.pending_photos
          + stat.endpoint.failed_photos < stat.endpoint.total_photos

\* C26: last_sync and active_sync_jobs of get_sync_status are those of the
\* school asked for: when only events of other schools are added or changed,
\* a second call for the school reports the same two values.
C26_OtherSchoolsDoNotShow ==
    (stat.pc = "done" /\ stat.prev # NoDoc /\ stat.school \notin stat.touched) =>
        /\ stat.result.last_sync = stat.prev.last_sync
        /\ stat.result.active_sync_jobs = stat.prev.active_sync_jobs

\* C28: under any fault of PhotoPrism, sync_photo_to_photoprism,
\* batch_sync_photos, retry_failed_syncs, reconcile_school_photos,
\* get_sync_status and every operation of the adapter return a value and
\* raise nothing to their caller.
C28_NothingRaised ==
    /\ \A c \in Calls :
          /\ calls[c].pc # "raised"
          /\ calls[c].pc = "done" => calls[c].ret \in BOOLEAN
    /\ batch.pc \in {"idle", "gathering", "done"}
    /\ batch.pc = "done" =>
          \A i \in DOMAIN batch.photo_ids :
              /\ batch.photo_ids[i] \in DOMAIN batch.ret
              /\ batch.ret[batch.photo_ids[i]] \in BOOLEAN
    /\ retry.pc # "raised"
    /\ recon.pc # "raised"
    /\ \A k \in Clients :
          /\ ops[k].pc # "raised"
          /\ ops[k].pc = "done" => ops[k].ret \in {"None", "False", "True", "json"}
    /\ \A s \in Schools : mgr.hc.results[s] \in {"null", "True", "False"}
    /\ stat.pc # "raised"
    /\ stat.pc = "done" => stat.result # NoDoc

C28_Witness ==
    \/ /\ scenario = "batch"
       /\ batch.pc = "done"
       /\ \E c \in Calls : Done(c) /\ calls[c].error_msg = "client error" /\ ~calls[c].ret
    \/ /\ scenario = "client"
       /\ \E k, j \in Clients :
             /\ ops[k].pc = "done" /\ ops[k].ensured = "True" /\ ops[k].ret = "None"
             /\ ops[j].pc = "done" /\ ops[j].ensured = "False" /\ ops[j].ret = "False"

\* C31: a sync_photo_to_photoprism call that has returned has left the Sync
\* Event it created in status SUCCESS or FAILED, never PENDING or PROCESSING.
C31_ReturnsWithEventSettled ==
    \A c \in Calls :
        (Done(c) /\ calls[c].event_id # 0) =>
            Event(c).event_status \in {"success", "failed"}

\* what PhotoPrism holds as far as the run can tell: the items it listed to
\* the reconciliation and the uploads it has accepted
RemoteSet ==
    PhotoprismByUuid(recon.photoprism_photos.items)
        \cup {calls[c].result.uuid : c \in {d \in Calls : calls[d].result # NoDoc}}

\* the step is a reset of photo p by reconcile_school_photos (lines 273-284)
ReconResets(p) ==
    /\ recon.pc = "reset"
    /\ Len(recon'.actions_taken) = Len(recon.actions_taken) + 1
    /\ recon'.actions_taken[Len(recon'.actions_taken)] = p

\* C32: beside a sync of the same school, reconcile_school_photos with
\* dry_run false resets a photo only if the uuid the photo holds at that write
\* is absent from PhotoPrism: a photo that a sync has just set to SYNCED with
\* a new uuid is never reset because of the older list of photos it had read.
C32_ResetsOnlyWhatIsStillOrphaned ==
    [][\A p \in PhotoIds :
          ReconResets(p) => photos[p].photoprism_uuid \notin RemoteSet]_vars

\* the step is the reset of retry_failed_syncs (lines 361-364)
RetryResets == retry.pc = "reset" /\ retry'.pc = "batching"

\* C38: retry_failed_syncs sets a photo to PENDING only if the photo is FAILED
\* at the moment of the reset: a photo that another operation has moved out
\* of FAILED since the selection was read is neither reset nor uploaded again.
C38_ResetsOnlyWhatIsStillFailed ==
    [][RetryResets =>
          \A p \in PhotoIds :
              photos'[p].status # photos[p].status => photos[p].status = "failed"]_vars

\* C39: in every state, whatever the interleaving of syncs, a retry and a
\* reconciliation, a photo whose status is SYNCED has a photoprism_uuid.
C39_SyncedHasAUuid ==
    \A p \in PhotoIds :
        photos[p].status = "synced" => photos[p].photoprism_uuid # NoId

\* the search of the reconciliation was sent (or its login was) and gave None
FetchFailed == recon.requests # << >> /\ recon.photoprism_photos.none

\* C33: when the remote fetch of reconcile_school_photos fails (search_photos
\* returns None after a failed login, a network error or a status other than
\* 200), no local photo is reset and no orphan is reported, with dry_run true
\* or false.
C33_FailedFetchResetsNothing ==
    FetchFailed =>
        /\ recon.pc = "done"
        /\ photos = recon.before[1]
        /\ recon.orphaned_yabook = << >>
        /\ recon.orphaned_photoprism = << >>
        /\ recon.actions_taken = << >>

C33_Witness ==
    /\ FetchFailed
    /\ recon.pc = "done"
    /\ ~recon.dry_run
    /\ recon.requests = << "POST /api/v1/session", "GET /api/v1/photos" >>
    /\ \E p \in PhotoIds :
          /\ photos[p].school_id = recon.school_id
          /\ photos[p].status = "synced"
          /\ photos[p].photoprism_uuid # NoId

\* C34: when retry_failed_syncs has returned, every photo of the list it
\* returned is SYNCED or FAILED and none is PENDING, also when the school has
\* no ACTIVE instance at the time of the retry.
C34_RetriedPhotosAreSettled ==
    retry.pc = "done" =>
        \A i \in DOMAIN retry.ret :
            photos[retry.ret[i]].status \in {"synced", "failed"}

\* C35: health_check_all completes and returns an entry for every adapter
\* that was cached when it started, also when get_instance_for_school adds an
\* adapter or remove_instance evicts one while it is suspended in a probe.
C35_SweepSurvivesCacheChanges ==
    /\ mgr.hc.pc \in {"idle", "probing", "done"}
    /\ mgr.hc.pc = "done" =>
          \A s \in mgr.hc.snapshot : mgr.hc.results[s] \in {"True", "False"}

\* the place of a status in the order PENDING, PROCESSING, (SUCCESS | FAILED)
EventRank(st) ==
    CASE st = "pending" -> 0
      [] st = "processing" -> 1
      [] st \in {"success", "failed"} -> 2

\* the step is the update of lines 78-81 by call c: an attempt of c begins
WritesProcessing(c) == obs'[c].started = obs[c].started + 1

\* C36: the status of a Sync Event only moves forward in the order PENDING,
\* PROCESSING, (SUCCESS | FAILED); PROCESSING is written once per attempt, by
\* the call that created the event; and once an event is SUCCESS or FAILED no
\* operation changes any of its fields, nor removes it.
C36_EventsOnlyMoveForward ==
    [][/\ \A i \in DOMAIN photoprism_sync_events :
             LET old == photoprism_sync_events[i]
                 new == photoprism_sync_events'[i]
             IN  /\ i \in DOMAIN photoprism_sync_events'
                 /\ EventRank(old.event_status) = 2 => new = old
                 /\ new # old => EventRank(new.event_status) > EventRank(old.event_status)
                 /\ new # old => [new EXCEPT !.event_status = "any",
                                             !.processing_time_ms = "any",
                                             !.error_details = "any"]
                                 = [old EXCEPT !.event_status = "any",
                                               !.processing_time_ms = "any",
                                               !.error_details = "any"]
       /\ \A c \in Calls :
             WritesProcessing(c) =>
                 /\ obs'[c].attempts = obs[c].attempts + 1
                 /\ obs'[c].attempts <= 3
                 /\ EventRank(photoprism_sync_events[calls[c].event_id].event_status) <= 1
                 /\ photoprism_sync_events'[calls[c].event_id].event_status = "processing"
                 /\ \A i \in DOMAIN photoprism_sync_events :
                       i # calls[c].event_id =>
                           photoprism_sync_events'[i] = photoprism_sync_events[i]]_vars

C36_Witness ==
    \E c, d \in Calls :
        /\ Done(c) /\ obs[c].started = 3 /\ Event(c).event_status = "success"
        /\ Done(d) /\ obs[d].started = 3 /\ Event(d).event_status = "failed"
        /\ calls[c].photo_id = calls[d].photo_id

\* C37: within one sync_photo_to_photoprism call PhotoPrism accepts at most
\* one upload of the photo: once an upload has returned a result the call
\* starts no further upload, also when a store write that follows the
\* accepted upload raises.
C37_NoUploadAfterAnAcceptedOne ==
    \A c \in Calls :
        obs[c].accepted >= 1 =>
            /\ obs[c].accepted = 1
            /\ obs[c].started = obs[c].acceptedAt

\* C40: every upload of a sync_photo_to_photoprism call goes to the base_url
\* (and with the credentials) of the instance that was the school's ACTIVE
\* instance when the call read it, also after the configuration of the
\* school's instance has changed since an earlier sync of the school.
C40_UploadsGoToTheInstanceRead ==
    \A c \in Calls :
        calls[c].pc = "uploading" => calls[c].adapter = calls[c].config.base_url

============================================================================
